---- MODULE Spec2Model ----
(***************************************************************************)
(* Model of the RosterLogic workforce engine: rule index, two-pass         *)
(* resolver, decision-matrix index and the entitlement ledger.             *)
(*                                                                         *)
(* Spreadsheet cells that hold text are sequences of one-character         *)
(* strings, so that trim() and toLowerCase() are computed and not assumed. *)
(* A Date cell is a record [day, hour]; formatDate keeps the day only.     *)
(***************************************************************************)
EXTENDS Integers, Sequences, FiniteSets, TLC

VARIABLES
    isDryRun,      \* CONFIG.isDryRun
    ledger,        \* data rows of the Entitlement_Ledger sheet (header row left out)
    lastCall,      \* what the last ledger call did to the sheet
    transitions,   \* history: number of activation transitions per ledger row index
    ruleSheet,     \* data rows of the Schedule_Rules sheet
    rulesIndex,    \* ctx.rules: employee id -> sorted rule list
    activeList,    \* the activeRules list of resolveEmployeeDay
    winner,        \* what findWinningRule returned, and for which type
    rpc,           \* how far the rules have been taken: sheet, indexed, filtered, won
    engineCtx,     \* the engine context: matrixIndex, ledger, leaves, holidays
    cellIn,        \* the employee and day of the resolveEmployeeDay call
    cellOut,       \* its locals and its result
    cpc,           \* ready or resolved
    decisionSheet, \* the rows of the Decision_Matrix sheet
    lookupFlags,   \* the four flags of the last table lookup
    lookupRow,     \* the row it returned
    mpc,           \* how far the table has been taken: sheet, indexed, looked
    roster,        \* the roster sheet of the workspace: header dates and employee rows
    leaveSheet,    \* the rows of the Leave_Data sheet
    holidaySheet,  \* the date cells of the Holidays sheet
    out,           \* what processRoster returned in the last run
    runs,          \* the number of completed engine runs
    epc,           \* start, loaded (context loaded) or done (workspace processed)
    granted,       \* the ledger rows that grantEntitlements appended
    resolved,      \* cell of the roster -> what its latest resolveEmployeeDay call returned
    invocations,   \* the cells on which resolveEmployeeDay was called, in call order
    workspaces,    \* the active workspaces of Admin_Config, each with its roster tab
    wi,            \* the loop index of runWorkforceEngine (1-based)
    wpc,           \* where runWorkforceEngine stands
    progress,      \* per workspace: how far its processing went
    cellsDone,     \* the cells of the current roster that are resolved
    batch,         \* rows, grants and revocations of processWorkspace
    daily,         \* per workspace: its Daily_Workforce_Status sheet
    logBuffer,     \* LOG_BUFFER
    systemLogs,    \* the System_Logs sheet of the central database
    opc,           \* per overlapping run: where its ledger update stands
    staged,        \* per overlapping run: the grants and revocations of its workspace
    buffers        \* per overlapping run: the rows and columns it holds to write

ledgerVars == <<isDryRun, ledger, lastCall, transitions>>

ruleVars == <<ruleSheet, rulesIndex, activeList, winner, rpc>>

cellVars == <<engineCtx, cellIn, cellOut, cpc>>

matrixVars == <<decisionSheet, lookupFlags, lookupRow, mpc>>

overlapVars == <<opc, staged, buffers>>

pureVars == <<resolved, invocations, overlapVars>>

engineVars == <<workspaces, wi, wpc, progress, cellsDone, batch, daily, logBuffer, systemLogs>>

runVars == <<roster, leaveSheet, holidaySheet, out, runs, epc, granted, pureVars, engineVars>>

vars == <<isDryRun, ledger, lastCall, transitions,
          ruleSheet, rulesIndex, activeList, winner, rpc,
          engineCtx, cellIn, cellOut, cpc,
          decisionSheet, lookupFlags, lookupRow, mpc,
          roster, leaveSheet, holidaySheet, out, runs, epc, granted,
          resolved, invocations,
          workspaces, wi, wpc, progress, cellsDone, batch, daily, logBuffer, systemLogs,
          opc, staged, buffers>>

----------------------------------------------------------------------------
(* Bounds *)

MaxBatch == 2
MaxRules == 2

----------------------------------------------------------------------------
(* Helpers.js: strings and dates *)

\* String.prototype.toLowerCase on one character of the alphabet used here
LowerChar(c) ==
    CASE c = "A" -> "a"
      [] c = "B" -> "b"
      [] OTHER -> c

toLowerCase(s) == [i \in 1..Len(s) |-> LowerChar(s[i])]

RECURSIVE trimStart(_)
trimStart(s) ==
    IF s = <<>> THEN <<>>
    ELSE IF Head(s) = " " THEN trimStart(Tail(s)) ELSE s

RECURSIVE trimEnd(_)
trimEnd(s) ==
    IF s = <<>> THEN <<>>
    ELSE IF s[Len(s)] = " " THEN trimEnd(SubSeq(s, 1, Len(s) - 1)) ELSE s

trim(s) == trimEnd(trimStart(s))

\* Employee cells as typed into a sheet: "a", " A" (same employee) and "b"
RawEmployees == { <<"a">>, <<" ", "A">>, <<"b">> }

\* Every employee string the engine handles: the cells and their trimmed forms
EmployeeStrings == RawEmployees \cup { trim(v) : v \in RawEmployees }

\* String(v).trim().toLowerCase() of every employee string, computed once
normTable == [v \in EmployeeStrings |-> toLowerCase(trim(v))]

\* String(v).trim().toLowerCase(): the employee half of every composite key
normEmployee(v) == normTable[v]

\* String(v).trim(): the display name processRoster passes on
displayName(v) == trim(v)

\* An empty date cell
NoDate == [day |-> 0, hour |-> 0]

\* parseSafeDate: a Date cell is returned as it is, an empty cell gives null
parseSafeDate(v) == IF v.day = 0 THEN NoDate ELSE v

isDate(v) == parseSafeDate(v) # NoDate

\* formatDate: yyyy-MM-dd, the time of day is dropped.  Date strings are
\* day numbers: their order as strings is the order of the days.
formatDate(d) == d.day

----------------------------------------------------------------------------
(* Input domains *)

\* The calendar days of the model; a date string is its day number
Days == {1, 2}

\* A roster header date is a midnight Date; a typed ledger date may carry a time
HeaderDates == [day : Days, hour : {0}]

TypedDates == [day : Days, hour : {9}]

\* Sequences over S of length lo..hi
SeqsOf(S, lo, hi) == UNION { [1..n -> S] : n \in lo..hi }

----------------------------------------------------------------------------
(* Ledger.js *)

\* The composite key "employee|yyyy-MM-dd" of a ledger row
ledgerKey(row) == <<normEmployee(row.employee), formatDate(parseSafeDate(row.entitlementDate))>>

\* Ledger.js:33-35 and 92-94: a row takes part only with an employee and a date
hasKey(row) == normEmployee(row.employee) # <<>> /\ isDate(row.entitlementDate)

\* Ledger.js:41
grantKey(g) == <<normEmployee(g.employee), formatDate(g.date)>>

\* existingKeys that forgets the Inactive rows
existingKeys_activeOnly(L) ==
    { ledgerKey(L[i]) : i \in { j \in 1..Len(L) : hasKey(L[j]) /\ L[j].activation # "Inactive" } }

\* Ledger.js:30-37: the keys already on the sheet
existingKeys(L) == { ledgerKey(L[i]) : i \in { j \in 1..Len(L) : hasKey(L[j]) } }

\* Ledger.js:43-49: the row a grant stages
grantRow(g) ==
    [employee |-> g.employee, entitlementDate |-> g.date, status |-> "",
     activation |-> "Active", entitlement |-> "COMP_DAY", scriptNote |-> ""]

\* grantAdds without line 50 (existing.add(k)): a batch is not checked against itself
RECURSIVE grantAdds_noMark(_, _)
grantAdds_noMark(grants, existing) ==
    IF grants = <<>> THEN <<>>
    ELSE LET g == Head(grants)
             k == grantKey(g)
         IN IF k \notin existing
            THEN <<grantRow(g)>> \o grantAdds_noMark(Tail(grants), existing)
            ELSE grantAdds_noMark(Tail(grants), existing)

\* Ledger.js:40-52: the rows staged for a batch, skipping keys already seen
RECURSIVE grantAdds(_, _)
grantAdds(grants, existing) ==
    IF grants = <<>> THEN <<>>
    ELSE LET g == Head(grants)
             k == grantKey(g)
         IN IF k \notin existing
            THEN <<grantRow(g)>> \o grantAdds(Tail(grants), existing \cup {k})
            ELSE grantAdds(Tail(grants), existing)

\* grantEntitlements: the sheet after the call, and the number of rows written
grantEntitlements(dry, L, grants) ==
    IF dry THEN [ledger |-> L, added |-> 0]
    ELSE LET adds == grantAdds(grants, existingKeys(L))
         IN [ledger |-> L \o adds, added |-> Len(adds)]

\* revokeKey without the normalisation of the employee
revokeKey_raw(r) == <<r.employee, r.dateStr>>

\* Ledger.js:85
revokeKey(r) == <<normEmployee(r.employee), r.dateStr>>

\* new Map(pairs): the last intent of a key gives its reason
revokeReason(revocations, key) ==
    LET idx == { i \in 1..Len(revocations) : revokeKey(revocations[i]) = key }
    IN revocations[CHOOSE i \in idx : \A j \in idx : j <= i].reason

revokeHas(revocations, key) ==
    \E i \in 1..Len(revocations) : revokeKey(revocations[i]) = key

\* revokeHits without the activation test of line 97
revokeHits_anyState(revocations, row) ==
    /\ hasKey(row)
    /\ revokeHas(revocations, ledgerKey(row))

\* Ledger.js:97: the row is in the map and not yet Inactive
revokeHits(revocations, row) ==
    /\ hasKey(row)
    /\ revokeHas(revocations, ledgerKey(row))
    /\ row.activation # "Inactive"

\* revokeRow that also rewrites the status cell
revokeRow_status(revocations, row) ==
    [row EXCEPT !.activation = "Inactive", !.status = "OFF",
                !.scriptNote = IF revokeReason(revocations, ledgerKey(row)) = "COMP_DAY"
                               THEN "Comp Day Consumed"
                               ELSE "Revoked: Work/Rule Change"]

\* Ledger.js:99-102: the two cells that are rewritten
revokeRow(revocations, row) ==
    [row EXCEPT !.activation = "Inactive",
                !.scriptNote = IF revokeReason(revocations, ledgerKey(row)) = "COMP_DAY"
                               THEN "Comp Day Consumed"
                               ELSE "Revoked: Work/Rule Change"]

\* revokeLedger: the sheet after the call, and whether the columns were written
revokeLedger(dry, L, revocations) ==
    IF dry THEN [ledger |-> L, hasChanges |-> FALSE]
    ELSE [ledger |-> [i \in 1..Len(L) |->
                        IF revokeHits(revocations, L[i])
                        THEN revokeRow(revocations, L[i]) ELSE L[i]],
          hasChanges |-> \E i \in 1..Len(L) : revokeHits(revocations, L[i])]

----------------------------------------------------------------------------
(* The ledger under arbitrary sequences of calls *)

\* The (employee cell, day) pairs the ledger calls are tried with: two
\* spellings of one employee on day 1, another employee on day 2
LedgerCells == { <<<<"a">>, 1>>, <<<<" ", "A">>, 1>>, <<<<"b">>, 2>> }

GrantIntents == { [employee |-> c[1], date |-> [day |-> c[2], hour |-> 0]] : c \in LedgerCells }

\* Revocations carry the display name and the date string; "b" on day 1 has no row
RevokeIntents ==
    { [employee |-> c[1], dateStr |-> c[2], reason |-> r] :
        c \in { <<<<"A">>, 1>>, <<<<"b">>, 2>>, <<<<"b">>, 1>> }, r \in {"COMP_DAY", "WORK"} }

\* Rows a ledger may hold before the engine ever ran (typed in or imported)
SeedRows ==
    { [employee |-> c[1], entitlementDate |-> [day |-> c[2], hour |-> 9], status |-> "COMP_DAY",
       activation |-> a, entitlement |-> "COMP_DAY", scriptNote |-> ""] :
        c \in { <<<<" ", "A">>, 1>>, <<<<"b">>, 2>> }, a \in {"Active", "Inactive", ""} }

EmptyMap == [k \in {} |-> <<>>]

\* The rule variables of a specification that loads no rules
IdleRules ==
    /\ ruleSheet = <<>>
    /\ rulesIndex = EmptyMap
    /\ activeList = <<>>
    /\ winner = [type |-> "", rule |-> [prio |-> -1, id |-> <<>>]]
    /\ rpc = "idle"

\* The cell variables of a specification that resolves no cell
IdleCell ==
    /\ engineCtx = [matrixIndex |-> EmptyMap, ledger |-> EmptyMap, leaves |-> EmptyMap, holidays |-> {}]
    /\ cellIn = [emp |-> [id |-> <<>>], meta |-> [str |-> 0]]
    /\ cellOut = [res |-> [finalStatus |-> ""]]
    /\ cpc = "idle"
    /\ decisionSheet = <<>>
    /\ lookupFlags = <<>>
    /\ lookupRow = [reason |-> ""]
    /\ mpc = "idle"

NoOut == [dailyStatus |-> <<>>, grants |-> <<>>, revocations |-> <<>>]

\* A sheet that does not exist
NoSheet == [exists |-> FALSE, rows |-> <<>>]

\* runWorkforceEngine is not running
IdleEngine ==
    /\ workspaces = <<>>
    /\ wi = 0
    /\ wpc = "idle"
    /\ progress = <<>>
    /\ cellsDone = 0
    /\ batch = NoOut
    /\ daily = <<>>
    /\ logBuffer = <<>>
    /\ systemLogs = NoSheet

\* No run is updating the ledger
IdleOverlap ==
    /\ opc = <<>>
    /\ staged = <<>>
    /\ buffers = <<>>

\* No resolveEmployeeDay call has been made
IdlePure ==
    /\ IdleEngine
    /\ IdleOverlap
    /\ resolved = EmptyMap
    /\ invocations = <<>>

\* The run variables of a specification that runs no engine
IdleRun ==
    /\ IdlePure
    /\ roster = [dates |-> <<>>, emps |-> <<>>]
    /\ leaveSheet = <<>>
    /\ holidaySheet = <<>>
    /\ out = NoOut
    /\ runs = 0
    /\ epc = "idle"
    /\ granted = {}

GrantBatches == SeqsOf(GrantIntents, 1, MaxBatch)

RevokeBatches == SeqsOf(RevokeIntents, 1, MaxBatch)

NoCall == [op |-> "none", keys |-> {}, size |-> 0, wrote |-> {}]

InitLedger ==
    /\ IdleRun
    /\ IdleRules
    /\ IdleCell
    /\ isDryRun \in BOOLEAN
    /\ ledger \in {<<>>} \cup { <<r>> : r \in SeedRows }
    /\ lastCall = NoCall
    /\ transitions = [i \in 1..Cardinality(LedgerCells) |-> 0]

\* One call of grantEntitlements with a batch of intents
Grant ==
    \E grants \in GrantBatches :
        LET res == grantEntitlements(isDryRun, ledger, grants)
        IN /\ ledger' = res.ledger
           /\ lastCall' = [op |-> "grant", size |-> Len(grants),
                           keys |-> { grantKey(grants[i]) : i \in 1..Len(grants) },
                           wrote |-> IF res.added > 0 THEN {"append"} ELSE {}]
           /\ UNCHANGED <<isDryRun, transitions, ruleVars, cellVars, matrixVars, runVars>>

\* One call of revokeLedger with a batch of intents
Revoke ==
    \E revocations \in RevokeBatches :
        LET res == revokeLedger(isDryRun, ledger, revocations)
        IN /\ ledger' = res.ledger
           /\ lastCall' = [op |-> "revoke", size |-> Len(revocations),
                           keys |-> { revokeKey(revocations[i]) : i \in 1..Len(revocations) },
                           wrote |-> IF res.hasChanges THEN {"activation", "scriptNote"} ELSE {}]
           /\ transitions' = [i \in DOMAIN transitions |->
                                IF i <= Len(ledger) /\ ledger[i].activation # res.ledger[i].activation
                                THEN transitions[i] + 1 ELSE transitions[i]]
           /\ UNCHANGED <<isDryRun, ruleVars, cellVars, matrixVars, runVars>>

NextLedger == Grant \/ Revoke

SpecLedger == InitLedger /\ [][NextLedger]_vars

----------------------------------------------------------------------------
(* Claims about the ledger operations *)

liveRows == 1..Len(ledger)

C4_RevokeIdempotent ==
    [][ lastCall'.op = "revoke" =>
          /\ (lastCall.op = "revoke" /\ lastCall'.keys \subseteq lastCall.keys)
                => (ledger' = ledger /\ lastCall'.wrote = {})
          /\ (\A i \in liveRows :
                ledgerKey(ledger[i]) \in lastCall'.keys => ledger[i].activation = "Inactive")
                => (ledger' = ledger /\ lastCall'.wrote = {})
          /\ \A i \in liveRows :
                /\ transitions'[i] <= 1
                /\ (~isDryRun /\ ledgerKey(ledger[i]) \in lastCall'.keys)
                      => ledger'[i].activation = "Inactive"
      ]_vars

\* C4 witness: a live revoke call that wrote nothing because its entry had
\* already made its one transition
C4_Witness ==
    /\ ~isDryRun
    /\ lastCall.op = "revoke" /\ lastCall.wrote = {}
    /\ \E i \in liveRows :
          /\ ledgerKey(ledger[i]) \in lastCall.keys
          /\ ledger[i].activation = "Inactive"
          /\ transitions[i] = 1

\* C6: the ledger calls never delete and touch only what they own. Every
\* entry stays at its place; employee, date, status and type never change;
\* an entry changes only in a revoke call, only if its key is in the batch
\* and it was not Inactive, and then only its activation and note.
C6_LedgerFrame ==
    [][ /\ Len(ledger') >= Len(ledger)
        /\ \A i \in liveRows :
              /\ ledger'[i].employee = ledger[i].employee
              /\ ledger'[i].entitlementDate = ledger[i].entitlementDate
              /\ ledger'[i].status = ledger[i].status
              /\ ledger'[i].entitlement = ledger[i].entitlement
              /\ ledger'[i] # ledger[i] =>
                    /\ lastCall'.op = "revoke"
                    /\ ledgerKey(ledger[i]) \in lastCall'.keys
                    /\ ledger[i].activation # "Inactive"
                    /\ ledger'[i].activation = "Inactive"
      ]_vars

\* C6 witness: a revoke call rewrote one entry and left an Active entry of
\* another key as it was
C6_Witness ==
    /\ lastCall.op = "revoke" /\ "activation" \in lastCall.wrote
    /\ \E i, j \in liveRows :
          /\ ledger[i].activation = "Inactive" /\ ledger[i].scriptNote # ""
          /\ ledger[j].activation = "Active"
          /\ ledgerKey(ledger[j]) \notin lastCall.keys

----------------------------------------------------------------------------
(* Rules: Resolver.js findWinningRule *)

\* Rule ids as typed in the Rule_ID column
RuleIds == { <<"R", "1">>, <<"R", "2">>, <<"R", "1", "0">> }

\* Collation rank of the characters used in ids
charRank(c) == CASE c = "0" -> 0 [] c = "1" -> 1 [] c = "2" -> 2 [] c = "R" -> 3 [] OTHER -> 4

\* String comparison, character by character, a proper prefix first
RECURSIVE compareStrings(_, _)
compareStrings(a, b) ==
    IF a = <<>> /\ b = <<>> THEN 0
    ELSE IF a = <<>> THEN -1
    ELSE IF b = <<>> THEN 1
    ELSE IF charRank(Head(a)) < charRank(Head(b)) THEN -1
    ELSE IF charRank(Head(a)) > charRank(Head(b)) THEN 1
    ELSE compareStrings(Tail(a), Tail(b))

compareTable == [a \in RuleIds \cup {<<>>}, b \in RuleIds \cup {<<>>} |-> compareStrings(a, b)]

\* String.prototype.localeCompare on the ids
localeCompare(a, b) == compareTable[a, b]

\* Resolver.js:334: the initial value of the reduce
NoRule == [prio |-> -1, id |-> <<>>]

\* Resolver.js:328-333: the reducer
pickWinner(prev, curr) ==
    IF prev.prio = -1 THEN curr
    ELSE IF curr.prio > prev.prio THEN curr
    ELSE IF curr.prio = prev.prio /\ localeCompare(curr.id, prev.id) > 0 THEN curr
    ELSE prev

RECURSIVE reduceWinner(_, _)
reduceWinner(rules, prev) ==
    IF rules = <<>> THEN prev
    ELSE reduceWinner(Tail(rules), pickWinner(prev, Head(rules)))

isType(r, type) == r.type = type

\* Resolver.js:325-335
findWinningRule(rules, type) ==
    reduceWinner(SelectSeq(rules, LAMBDA r : isType(r, type)), NoRule)

----------------------------------------------------------------------------
(* Rules.js: parseRules *)

\* toUpperCase().trim() on the shift, status and flag cells used here
upperTrim(s) ==
    CASE s = "off" -> "OFF"
      [] s = " " -> ""
      [] s = "any" -> "ANY"
      [] s = "Active" -> "ACTIVE"
      [] s = "Inactive" -> "INACTIVE"
      [] s = "Approved" -> "APPROVED"
      [] s = "Pending" -> "PENDING"
      [] OTHER -> s

\* String(v).toUpperCase() of a cell
toUpperCase(s) ==
    CASE s = "off" -> "OFF"
      [] s = "any" -> "ANY"
      [] OTHER -> s

\* part_001:306: the approval cell contains APPROVED
isApproved(cell) == upperTrim(cell) = "APPROVED"

\* part_001:313: an empty type cell means SHIFT_OVERRIDE
typeOf(cell) == IF cell = "" THEN "SHIFT_OVERRIDE" ELSE upperTrim(cell)

\* part_001:319: an empty frequency cell means ALL.  A frequency is the set
\* of day names its text contains; the text "ALL" is the set {"ALL"}
freqOf(cell) == IF cell = {} THEN {"ALL"} ELSE cell

\* part_001:320: Number(cell) || 0.  A priority cell is <<"num", n>> or <<"text", 0>>
toPrio(cell) == IF cell[1] = "num" THEN cell[2] ELSE 0

\* part_001:311-321: the rule object of a sheet row
ruleOf(r) ==
    LET st == parseSafeDate(r.start)
    IN [id |-> r.id,
        type |-> typeOf(r.type),
        start |-> formatDate(st),
        end |-> formatDate(IF isDate(r.end) THEN parseSafeDate(r.end) ELSE st),
        shift |-> r.shift,
        wo1 |-> r.wo1,
        wo2 |-> r.wo2,
        freq |-> freqOf(r.freq),
        prio |-> toPrio(r.prio)]

\* part_001:306-309: approved, with an employee and a start date
ruleLoads(r) ==
    /\ isApproved(r.status)
    /\ normEmployee(r.employee) # <<>>
    /\ isDate(r.start)

\* part_001:330-344: the comparator of the sort
ruleCompare(a, b) ==
    LET typeA == IF a.type = "DAY_PATTERN" THEN 0 ELSE 1
        typeB == IF b.type = "DAY_PATTERN" THEN 0 ELSE 1
        freqA == IF a.freq # {"ALL"} THEN 0 ELSE 1
        freqB == IF b.freq # {"ALL"} THEN 0 ELSE 1
    IN IF typeA # typeB THEN typeA - typeB
       ELSE IF freqA # freqB THEN freqA - freqB
       ELSE IF a.prio # b.prio THEN b.prio - a.prio
       ELSE localeCompare(a.id, b.id)

\* Array.prototype.sort is stable: x goes behind everything not greater than it
RECURSIVE insertRule(_, _)
insertRule(sorted, x) ==
    IF sorted = <<>> THEN <<x>>
    ELSE IF ruleCompare(Head(sorted), x) <= 0
         THEN <<Head(sorted)>> \o insertRule(Tail(sorted), x)
         ELSE <<x>> \o sorted

RECURSIVE sortRules(_)
sortRules(rules) ==
    IF rules = <<>> THEN <<>>
    ELSE insertRule(sortRules(SubSeq(rules, 1, Len(rules) - 1)), rules[Len(rules)])

\* part_001:299-347: employee id -> sorted rule list
parseRules(rows) ==
    LET loaded == SelectSeq(rows, ruleLoads)
        emps == { normEmployee(loaded[i].employee) : i \in 1..Len(loaded) }
        ofEmp(e) == SelectSeq(loaded, LAMBDA r : normEmployee(r.employee) = e)
    IN [e \in emps |-> sortRules([i \in 1..Len(ofEmp(e)) |-> ruleOf(ofEmp(e)[i])])]

----------------------------------------------------------------------------
(* Helpers.js: days *)

DAY_NAMES == <<"SUN", "MON", "TUE", "WED", "THU", "FRI", "SAT">>

\* Day 1 of the model is a Monday
getDayName(d) == DAY_NAMES[(d.day % 7) + 1]

\* toUpperCase().substring(0, 3) on the off-day cells used here
normalizeDay(d) ==
    CASE d = "Tuesday" -> "TUE"
      [] d = "mon" -> "MON"
      [] OTHER -> d

\* part_001:89-93
metaOf(d) == [obj |-> d, str |-> formatDate(d), day |-> getDayName(d)]

----------------------------------------------------------------------------
(* WorkspaceProcessor.js loadContext: the decision matrix index *)

isWild(c) == c = "ANY" \/ c = "IGNORED"

\* Helpers.js:52
checkMatch(c0, v0) ==
    LET c == upperTrim(c0)
        v == upperTrim(v0)
    IN IF c = "ANY" \/ c = "IGNORED" THEN TRUE
       ELSE IF c = "COMP_DAY" /\ (v = "COMP_DAY" \/ v = "OFF") THEN TRUE
       ELSE IF c = "LEAVE" /\ v = "LEAVE" THEN TRUE
       ELSE c = v

\* part_001:159-167: the row object of a sheet row (cells upper-cased, not
\* trimmed; an empty request cell read as NONE)
matrixRowOf(d) ==
    [base |-> toUpperCase(d.base), rule |-> toUpperCase(d.rule), ph |-> toUpperCase(d.ph),
     req |-> IF d.req = "" THEN "NONE" ELSE toUpperCase(d.req),
     finalStatus |-> toUpperCase(d.finalStatus), action |-> toUpperCase(d.action),
     reason |-> d.reason]

\* part_001:168-171: the concrete values a cell stands for
expandBase(c) == IF isWild(c) THEN {"WORK", "OFF"} ELSE {c}
expandRule(c) == IF isWild(c) THEN {"WORK", "OFF", "NONE"} ELSE {c}
expandPh(c) == IF isWild(c) THEN {"TRUE", "FALSE"} ELSE {c}
expandReq_noLeave(c) == IF isWild(c) THEN {"NONE", "COMP_DAY"} ELSE {c}
expandReq(c) == IF isWild(c) THEN {"NONE", "COMP_DAY", "LEAVE"} ELSE {c}

\* part_001:172-176: the keys a row is filed under
rowKeys(row) ==
    expandBase(row.base) \X expandRule(row.rule) \X expandPh(row.ph) \X expandReq(row.req)

\* part_001:157-167: the rows of the table as loaded, in sheet order, rows
\* without a base skipped
tableRows(sheet) ==
    LET kept == SelectSeq(sheet, LAMBDA d : d.base # "")
    IN [i \in 1..Len(kept) |-> matrixRowOf(kept[i])]

\* A bucket filled in reverse sheet order
bucketOf_reversed(rows, k) ==
    LET b == SelectSeq(rows, LAMBDA row : k \in rowKeys(row))
    IN [i \in 1..Len(b) |-> b[Len(b) + 1 - i]]

\* part_001:177-178: every row is pushed on the bucket of each of its keys,
\* so a bucket holds the rows filed under its key in sheet order
bucketOf(rows, k) == SelectSeq(rows, LAMBDA row : k \in rowKeys(row))

\* part_001:157-180: the index after the loop over the sheet rows
buildMatrixIndex(sheet) ==
    LET rows == tableRows(sheet)
    IN [k \in UNION { rowKeys(rows[i]) : i \in 1..Len(rows) } |-> bucketOf(rows, k)]

\* No row matched
NoMatch == [base |-> "", rule |-> "", ph |-> "", req |-> "", finalStatus |-> "",
            action |-> "", reason |-> ""]

rowMatches(row, flags) ==
    /\ checkMatch(row.base, flags[1])
    /\ checkMatch(row.rule, flags[2])
    /\ checkMatch(row.ph, flags[3])
    /\ checkMatch(row.req, flags[4])

\* Resolver.js:165-175: the first row of the bucket that passes the re-check
firstMatch(bucket, flags) ==
    LET hits == { i \in 1..Len(bucket) : rowMatches(bucket[i], flags) }
    IN IF hits = {} THEN NoMatch
       ELSE bucket[CHOOSE i \in hits : \A j \in hits : i <= j]

\* Resolver.js:162-175
matrixLookup(matrixIndex, flags) ==
    firstMatch(IF flags \in DOMAIN matrixIndex THEN matrixIndex[flags] ELSE <<>>, flags)

----------------------------------------------------------------------------
(* Resolver.js: resolveEmployeeDay *)

\* Resolver.js:267-282
audit_inputs(rule) ==
    IF rule.type = "SHIFT_OVERRIDE" /\ (rule.shift = "" \/ upperTrim(rule.shift) = "")
    THEN FALSE
    ELSE TRUE

\* Resolver.js:89-93
isActive(r, meta) ==
    /\ meta.str >= r.start /\ meta.str <= r.end
    /\ (r.freq = {"ALL"} \/ meta.day \in r.freq)
    /\ audit_inputs(r)

activeRulesOf(rules, meta) == SelectSeq(rules, LAMBDA r : isActive(r, meta))

\* An entry of the trace array
traceTag(tag, id, shift, prio) == [tag |-> tag, id |-> id, shift |-> shift, prio |-> prio]


\* The base state without the off-days of line 83
baseState_ignoresOffDays(emp, meta) ==
    LET baseIsWork == emp.baseShift # "OFF"
        shift == IF baseIsWork THEN emp.baseShift ELSE "OFF"
    IN [isWorkDay |-> baseIsWork, currentShift |-> shift,
        trace |-> <<traceTag("BASE", <<>>, shift, IF baseIsWork THEN 1 ELSE 0)>>]

\* Resolver.js:83-87
baseState(emp, meta) ==
    LET baseOff == meta.day = emp.wo1 \/ meta.day = emp.wo2
        baseIsWork == ~baseOff /\ emp.baseShift # "OFF"
        shift == IF baseIsWork THEN emp.baseShift ELSE "OFF"
    IN [isWorkDay |-> baseIsWork, currentShift |-> shift,
        trace |-> <<traceTag("BASE", <<>>, shift, IF baseIsWork THEN 1 ELSE 0)>>]

\* applyPattern without the fallback of lines 110-114: a work day of the
\* rule keeps the shift OFF when the rule has no usable shift
applyPattern_keepsOff(emp, meta, st, winningWO) ==
    IF winningWO.id = <<>> THEN st
    ELSE LET isRuleOff == meta.day = normalizeDay(winningWO.wo1)
                             \/ meta.day = normalizeDay(winningWO.wo2)
             ruleShiftStr == upperTrim(winningWO.shift)
             isInvalidShift == ruleShiftStr = "OFF" \/ ruleShiftStr = ""
             shift == IF isRuleOff THEN "OFF"
                      ELSE IF ~isInvalidShift THEN winningWO.shift
                      ELSE st.currentShift
         IN [isWorkDay |-> ~isRuleOff, currentShift |-> shift,
             trace |-> st.trace
                       \o <<traceTag("DAY_PATTERN", winningWO.id, shift, winningWO.prio)>>]

\* Resolver.js:98-118: what the DAY_PATTERN winner does to the state
applyPattern(emp, meta, st, winningWO) ==
    IF winningWO.id = <<>> THEN st
    ELSE LET isRuleOff == meta.day = normalizeDay(winningWO.wo1)
                             \/ meta.day = normalizeDay(winningWO.wo2)
             ruleShiftStr == upperTrim(winningWO.shift)
             isInvalidShift == ruleShiftStr = "OFF" \/ ruleShiftStr = ""
             fix == ~isRuleOff /\ isInvalidShift /\ st.currentShift = "OFF"
             shift == IF isRuleOff THEN "OFF"
                      ELSE IF ~isInvalidShift THEN winningWO.shift
                      ELSE IF st.currentShift = "OFF"
                           THEN (IF emp.baseShift # "OFF" THEN emp.baseShift
                                 ELSE "09:00 - 18:00")
                           ELSE st.currentShift
         IN [isWorkDay |-> ~isRuleOff, currentShift |-> shift,
             trace |-> st.trace
                       \o (IF fix THEN <<traceTag("FIX:AppliedFallback", <<>>, "", 0)>> ELSE <<>>)
                       \o <<traceTag("DAY_PATTERN", winningWO.id, shift, winningWO.prio)>>]

\* Resolver.js:96-118: Pass 1, the DAY_PATTERN winner sets the state
pass1(emp, meta, activeRules, st) ==
    applyPattern(emp, meta, st, findWinningRule(activeRules, "DAY_PATTERN"))

\* applyShift that lets an OFF shift value turn the day off
applyShift_forcesOff(emp, st, winningSHIFT) ==
    IF winningSHIFT.id = <<>> THEN st
    ELSE [isWorkDay |-> upperTrim(winningSHIFT.shift) # "OFF",
          currentShift |-> winningSHIFT.shift,
          trace |-> st.trace
                    \o <<traceTag("SHIFT", winningSHIFT.id, winningSHIFT.shift,
                                  winningSHIFT.prio)>>]

\* Resolver.js:123-133: what the SHIFT_OVERRIDE winner does to a work day
applyShift(emp, st, winningSHIFT) ==
    IF winningSHIFT.id = <<>> THEN st
    ELSE IF upperTrim(winningSHIFT.shift) # "OFF" /\ upperTrim(winningSHIFT.shift) # ""
         THEN [isWorkDay |-> st.isWorkDay, currentShift |-> winningSHIFT.shift,
               trace |-> st.trace
                         \o <<traceTag("SHIFT", winningSHIFT.id, winningSHIFT.shift,
                                       winningSHIFT.prio)>>]
         ELSE [isWorkDay |-> st.isWorkDay, currentShift |-> emp.baseShift,
               trace |-> st.trace
                         \o <<traceTag("SHIFT:FALLBACK_BASE", winningSHIFT.id, "", 0)>>]

\* Resolver.js:121-134: Pass 2, only on a work day
pass2(emp, activeRules, st) ==
    IF ~st.isWorkDay THEN st
    ELSE applyShift(emp, st, findWinningRule(activeRules, "SHIFT_OVERRIDE"))

\* Resolver.js:80: the composite key of the cell
cellKey(emp, meta) == <<emp.id, meta.str>>

\* Map.prototype.get with a value that is falsy when absent
mapGet(map, key, absent) == IF key \in DOMAIN map THEN map[key] ELSE absent

\* shiftMismatch without the exemption of the final shift OFF
shiftMismatch_noOffExemption(finalShift, winningSHIFT) ==
    /\ winningSHIFT.id # <<>>
    /\ winningSHIFT.shift # ""
    /\ finalShift # winningSHIFT.shift
    /\ finalShift # "LEAVE"
    /\ finalShift # "COMP_DAY"

\* Resolver.js:248-257: the winner against the final shift
shiftMismatch(finalShift, winningSHIFT) ==
    /\ winningSHIFT.id # <<>>
    /\ winningSHIFT.shift # ""
    /\ finalShift # winningSHIFT.shift
    /\ finalShift # "LEAVE"
    /\ finalShift # "COMP_DAY"
    /\ finalShift # "OFF"

\* Resolver.js:241-259.  TRUE stands for the audit-fail string, FALSE for null
verifyShiftOverride(isWorkDay, finalShift, activeRules) ==
    IF ~isWorkDay THEN FALSE
    ELSE shiftMismatch(finalShift, findWinningRule(activeRules, "SHIFT_OVERRIDE"))

\* Resolver.js:148-160: the request flag from the leave and the ledger entry
reqFlagOf(lv, counts) == IF lv # "" THEN "LEAVE" ELSE IF counts THEN "COMP_DAY" ELSE "NONE"

\* Resolver.js:155: the ledger entry counts as an entitlement
ledCounts(ledgerMap, key) ==
    /\ key \in DOMAIN ledgerMap
    /\ (ledgerMap[key].status = "COMP_DAY" \/ ledgerMap[key].status = "OFF")

\* flagsOf whose rule flag is the derived state, changed or not
flagsOf_alwaysDerived(baseIsWork, isWorkDay, isHoliday, reqFlag) ==
    <<IF baseIsWork THEN "WORK" ELSE "OFF",
      IF isWorkDay THEN "WORK" ELSE "OFF",
      IF isHoliday THEN "TRUE" ELSE "FALSE",
      reqFlag>>

\* Resolver.js:138-160: the four flags of the lookup key
flagsOf(baseIsWork, isWorkDay, isHoliday, reqFlag) ==
    <<IF baseIsWork THEN "WORK" ELSE "OFF",
      IF isWorkDay = baseIsWork THEN "NONE" ELSE IF isWorkDay THEN "WORK" ELSE "OFF",
      IF isHoliday THEN "TRUE" ELSE "FALSE",
      reqFlag>>

\* Resolver.js:138-175: the locals of resolveEmployeeDay once the passes are done
localsAfterPasses(emp, meta, ctx, base, activeRules, p1, p2, flags) ==
    [key |-> cellKey(emp, meta), baseIsWork |-> base.isWorkDay, activeRules |-> activeRules,
     afterPass1 |-> p1, isWorkDay |-> p2.isWorkDay, currentShift |-> p2.currentShift,
     trace |-> p2.trace, derivedFlag |-> IF p2.isWorkDay THEN "WORK" ELSE "OFF",
     baseFlag |-> flags[1], ruleFlag |-> flags[2], holidayFlag |-> flags[3],
     reqFlag |-> flags[4],
     leave |-> IF mapGet(ctx.leaves, cellKey(emp, meta), "") # ""
               THEN ctx.leaves[cellKey(emp, meta)] ELSE "NONE",
     entitlement |-> IF ledCounts(ctx.ledger, cellKey(emp, meta))
                     THEN ctx.ledger[cellKey(emp, meta)].status ELSE "NONE",
     flags |-> flags, match |-> matrixLookup(ctx.matrixIndex, flags)]

localsAfterPass2(emp, meta, ctx, base, activeRules, p1, p2) ==
    localsAfterPasses(emp, meta, ctx, base, activeRules, p1, p2,
        flagsOf(base.isWorkDay, p2.isWorkDay, meta.str \in ctx.holidays,
                reqFlagOf(mapGet(ctx.leaves, cellKey(emp, meta), ""),
                          ledCounts(ctx.ledger, cellKey(emp, meta)))))

localsAfterPass1(emp, meta, ctx, base, activeRules, p1) ==
    localsAfterPass2(emp, meta, ctx, base, activeRules, p1, pass2(emp, activeRules, p1))

localsAfterBase(emp, meta, ctx, base, activeRules) ==
    localsAfterPass1(emp, meta, ctx, base, activeRules, pass1(emp, meta, activeRules, base))

\* Resolver.js:79-175: the locals of resolveEmployeeDay up to the matrix lookup
resolveLocals(emp, meta, ctx, rules) ==
    localsAfterBase(emp, meta, ctx, baseState(emp, meta), activeRulesOf(rules, meta))

\* Resolver.js:298-315 and 211-226: the 14 fields of an audit row
auditRow(emp, meta, l, finalStatus, finalShift, reason, trace, finalVal) ==
    [key |-> l.key, display |-> emp.display, date |-> meta.obj, baseFlag |-> l.baseFlag,
     baseShift |-> IF l.baseIsWork THEN emp.baseShift ELSE "OFF",
     ruleShift |-> l.currentShift, leave |-> l.leave, holidayFlag |-> l.holidayFlag,
     entitlement |-> l.entitlement, finalStatus |-> finalStatus, finalShift |-> finalShift,
     reason |-> reason, trace |-> trace, finalVal |-> finalVal]

\* The final status without line 188: the token LEAVE is reported as it is
finalStatusOf_keepsToken(l) == l.match.finalStatus

\* Resolver.js:188: LEAVE stands for the leave category
finalStatusOf(l) == IF l.match.finalStatus = "LEAVE" THEN l.leave ELSE l.match.finalStatus

\* Resolver.js:192-207: the final shift of a status
finalShiftOf(l, finalStatus) == IF finalStatus = "WORK" THEN l.currentShift ELSE "OFF"

\* Resolver.js:192-207: the final value of a status, in tenths (10 is 1.0)
finalValOf(l, finalStatus) ==
    IF finalStatus = "WORK"
    THEN (IF l.currentShift = "HAL1" \/ l.currentShift = "HAL2" THEN 5 ELSE 10)
    ELSE IF finalStatus = "COMP_DAY" THEN 10 ELSE 0

\* Resolver.js:209-228: the result of a matched cell
matchedResult(emp, meta, l, finalStatus, finalShift) ==
    [row |-> auditRow(emp, meta, l, finalStatus, finalShift,
                      IF verifyShiftOverride(l.isWorkDay, finalShift, l.activeRules)
                      THEN "AUDIT FAIL" ELSE l.match.reason,
                      l.trace, finalValOf(l, finalStatus)),
     entitlementAction |-> l.match.action, finalStatus |-> finalStatus]

\* resultOfLocals whose error result asks for a grant
resultOfLocals_errorGrants(emp, meta, l) ==
    IF l.match = NoMatch
    THEN [row |-> auditRow(emp, meta, l, "ERROR", "", "Missing Logic",
                           <<traceTag("ERROR_TRACE", <<>>, "", 0)>>, 0),
          entitlementAction |-> "GRANT", finalStatus |-> "ERROR"]
    ELSE matchedResult(emp, meta, l, finalStatusOf(l), finalShiftOf(l, finalStatusOf(l)))

\* Resolver.js:177-228: the result from the locals
resultOfLocals(emp, meta, l) ==
    IF l.match = NoMatch
    THEN [row |-> auditRow(emp, meta, l, "ERROR", "", "Missing Logic",
                           <<traceTag("ERROR_TRACE", <<>>, "", 0)>>, 0),
          entitlementAction |-> "NONE", finalStatus |-> "ERROR"]
    ELSE matchedResult(emp, meta, l, finalStatusOf(l), finalShiftOf(l, finalStatusOf(l)))

\* Resolver.js:79-229
resolveEmployeeDay(emp, meta, ctx, rules) ==
    resultOfLocals(emp, meta, resolveLocals(emp, meta, ctx, rules))

----------------------------------------------------------------------------
(* Winner selection on the rules of one employee *)

\* The ledger variables of a specification that makes no ledger call
IdleLedger ==
    /\ isDryRun = FALSE
    /\ ledger = <<>>
    /\ lastCall = NoCall
    /\ transitions = [i \in 1..Cardinality(LedgerCells) |-> 0]

\* Priority cells: numbers, and a text that Number() cannot read
PrioCells == { <<"num", -2>>, <<"num", -1>>, <<"num", 1>>, <<"text", 0>> }

\* Approved rules of employee "a" that are active on both days
WinnerRows ==
    [id : RuleIds, employee : {<<"a">>}, type : {"DAY_PATTERN", "SHIFT_OVERRIDE"},
     start : {[day |-> 1, hour |-> 0]}, end : {NoDate}, shift : {"10:00 - 19:00"},
     wo1 : {"WED"}, wo2 : {"THU"}, freq : {{}}, status : {"Approved"}, prio : PrioCells]

WinnerSheets == SeqsOf(WinnerRows, 0, MaxRules)

InitWinner ==
    /\ IdleRun
    /\ IdleLedger
    /\ IdleCell
    /\ ruleSheet \in WinnerSheets
    /\ rulesIndex = EmptyMap
    /\ activeList = <<>>
    /\ winner = [type |-> "", rule |-> NoRule]
    /\ rpc = "sheet"

\* loadContext: ctx.rules = parseRules(sheet)
ParseRules ==
    /\ rpc = "sheet"
    /\ rulesIndex' = parseRules(ruleSheet)
    /\ rpc' = "indexed"
    /\ UNCHANGED <<ruleSheet, activeList, winner, ledgerVars, cellVars, matrixVars, runVars>>

\* resolveEmployeeDay, lines 89-93, for employee "a" on one day
FilterActive ==
    \E d \in HeaderDates :
        /\ rpc = "indexed"
        /\ activeList' = activeRulesOf(mapGet(rulesIndex, <<"a">>, <<>>), metaOf(d))
        /\ rpc' = "filtered"
        /\ UNCHANGED <<ruleSheet, rulesIndex, winner, ledgerVars, cellVars, matrixVars, runVars>>

\* resolveEmployeeDay, lines 96 and 122
FindWinner ==
    \E type \in {"DAY_PATTERN", "SHIFT_OVERRIDE"} :
        /\ rpc = "filtered"
        /\ winner' = [type |-> type, rule |-> findWinningRule(activeList, type)]
        /\ rpc' = "won"
        /\ UNCHANGED <<ruleSheet, rulesIndex, activeList, ledgerVars, cellVars, matrixVars, runVars>>

NextWinner == ParseRules \/ FilterActive \/ FindWinner

SpecWinner == InitWinner /\ [][NextWinner]_vars

\* The active rules of the type that was asked for
candidates == { activeList[i] : i \in { j \in 1..Len(activeList) : activeList[j].type = winner.type } }

\* C1: priority law. findWinningRule never returns a rule while a rule of
\* the same type with a higher priority is in the list, and among the rules
\* of the highest priority it returns the one with the greatest id.
C1_PriorityLaw ==
    (rpc = "won" /\ candidates # {}) =>
        /\ winner.rule \in candidates
        /\ \A r \in candidates :
              \/ r.prio < winner.rule.prio
              \/ r.prio = winner.rule.prio /\ localeCompare(r.id, winner.rule.id) <= 0

----------------------------------------------------------------------------
(* One cell: rules of one employee, the two passes and the lookup *)

\* docs/sample_data/Decision_Matrix.md, the reasons cut at their dash
SampleMatrix == <<
    [base |-> "WORK", rule |-> "NONE", ph |-> "FALSE", req |-> "NONE",
     finalStatus |-> "WORK", action |-> "NONE", reason |-> "Regular work day"],
    [base |-> "WORK", rule |-> "NONE", ph |-> "TRUE", req |-> "NONE",
     finalStatus |-> "WORK", action |-> "GRANT", reason |-> "Work on public holiday"],
    [base |-> "WORK", rule |-> "NONE", ph |-> "FALSE", req |-> "LEAVE",
     finalStatus |-> "LEAVE", action |-> "NONE", reason |-> "Approved leave"],
    [base |-> "WORK", rule |-> "OFF", ph |-> "FALSE", req |-> "NONE",
     finalStatus |-> "OFF", action |-> "NONE", reason |-> "Rule changed work to off"],
    [base |-> "OFF", rule |-> "NONE", ph |-> "FALSE", req |-> "NONE",
     finalStatus |-> "OFF", action |-> "NONE", reason |-> "Scheduled off day"],
    [base |-> "OFF", rule |-> "WORK", ph |-> "FALSE", req |-> "NONE",
     finalStatus |-> "WORK", action |-> "NONE", reason |-> "Rule changed off to work"],
    [base |-> "OFF", rule |-> "WORK", ph |-> "TRUE", req |-> "NONE",
     finalStatus |-> "WORK", action |-> "GRANT", reason |-> "Rule changed off to work on holiday"],
    [base |-> "WORK", rule |-> "NONE", ph |-> "FALSE", req |-> "COMP_DAY",
     finalStatus |-> "COMP_DAY", action |-> "REVOKE", reason |-> "Comp day consumed"],
    [base |-> "OFF", rule |-> "NONE", ph |-> "TRUE", req |-> "NONE",
     finalStatus |-> "OFF", action |-> "NONE", reason |-> "Holiday on off day"],
    [base |-> "ANY", rule |-> "ANY", ph |-> "ANY", req |-> "LEAVE",
     finalStatus |-> "LEAVE", action |-> "NONE", reason |-> "Leave takes precedence over all"] >>

SampleIndex == buildMatrixIndex(SampleMatrix)

\* Employee "a" of the roster: with or without a base shift, Monday off or not
ResolveEmps ==
    [id : {<<"a">>}, display : {<<"A">>}, baseShift : {"09:00 - 18:00", "OFF"},
     wo1 : {"SAT", "MON"}, wo2 : {"SUN"}]

\* Approved rules of employee "a"; the id follows the priority
ResolveRows ==
    { [id |-> IF p = 1 THEN <<"R", "1">> ELSE <<"R", "2">>, employee |-> <<" ", "A">>,
       type |-> t[1], start |-> [day |-> 1, hour |-> 0], end |-> [day |-> 2, hour |-> 0],
       shift |-> t[2], wo1 |-> t[3], wo2 |-> "THU", freq |-> {}, status |-> "Approved",
       prio |-> <<"num", p>>] :
        p \in {1, 2},
        t \in ({"DAY_PATTERN"} \X {"", "10:00 - 19:00", "OFF"} \X {"mon", "Tuesday"})
              \cup ({"SHIFT_OVERRIDE"} \X {"", " ", "10:00 - 19:00", "OFF", "off"} \X {""}) }

ResolveSheets == SeqsOf(ResolveRows, 0, MaxRules)

InitResolve ==
    /\ IdleRun
    /\ IdleLedger
    /\ ruleSheet \in ResolveSheets
    /\ rulesIndex = EmptyMap
    /\ activeList = <<>>
    /\ winner = [type |-> "", rule |-> NoRule]
    /\ rpc = "sheet"
    /\ engineCtx = [matrixIndex |-> SampleIndex, ledger |-> EmptyMap, leaves |-> EmptyMap,
              holidays |-> {}]
    /\ cellIn \in [emp : ResolveEmps, meta : {[str |-> 0]}]
    /\ cellOut = [res |-> [finalStatus |-> ""]]
    /\ cpc = "ready"
    /\ decisionSheet = SampleMatrix
    /\ lookupFlags = <<>>
    /\ lookupRow = [reason |-> ""]
    /\ mpc = "idle"

\* processRoster, lines 109-114: one call of resolveEmployeeDay
ResolveCell ==
    \E d \in HeaderDates :
        LET meta == metaOf(d)
            rules == mapGet(rulesIndex, cellIn.emp.id, <<>>)
        IN /\ rpc = "indexed"
           /\ cpc = "ready"
           /\ cellIn' = [cellIn EXCEPT !.meta = meta]
           /\ cellOut' = [locals |-> resolveLocals(cellIn.emp, meta, engineCtx, rules),
                          res |-> resolveEmployeeDay(cellIn.emp, meta, engineCtx, rules)]
           /\ cpc' = "resolved"
           /\ UNCHANGED <<engineCtx, ruleVars, ledgerVars, matrixVars, runVars>>

NextResolve == ParseRules \/ ResolveCell

SpecResolve == InitResolve /\ [][NextResolve]_vars

\* C2: SHIFT_OVERRIDE cannot force OFF. If the day is WORK after base
\* determination and Pass 1, it is WORK after Pass 2: the derived flag is
\* WORK and the rule flag of the lookup key is not OFF.
C2_ShiftOverrideCannotForceOff ==
    (cpc = "resolved" /\ cellOut.locals.afterPass1.isWorkDay) =>
        /\ cellOut.locals.isWorkDay
        /\ cellOut.locals.derivedFlag = "WORK"
        /\ cellOut.locals.flags[2] # "OFF"

\* C2 witness: a work day after Pass 1 whose Pass 2 winner carries the shift OFF
C2_Witness ==
    /\ cpc = "resolved"
    /\ cellOut.locals.afterPass1.isWorkDay
    /\ findWinningRule(cellOut.locals.activeRules, "SHIFT_OVERRIDE").id # <<>>
    /\ findWinningRule(cellOut.locals.activeRules, "SHIFT_OVERRIDE").shift = "OFF"
    /\ cellOut.locals.derivedFlag = "WORK"

----------------------------------------------------------------------------
(* The decision table: index build and two-stage lookup *)

MaxRows == 2

\* The condition cells of a decision row: literals of the documented
\* domains and the two wildcards, the request wildcard typed in lower case
MatrixConds ==
    [base : {"WORK", "OFF", "ANY"}, rule : {"NONE", "ANY"}, ph : {"FALSE", "IGNORED"},
     req : {"COMP_DAY", "any"}]

\* The outcome cells of the row at position i, its reason naming the position
outcomeOf(i) ==
    CASE i = 1 -> [finalStatus |-> "WORK", action |-> "GRANT", reason |-> "row 1"]
      [] i = 2 -> [finalStatus |-> "OFF", action |-> "NONE", reason |-> "row 2"]
      [] OTHER -> [finalStatus |-> "COMP_DAY", action |-> "REVOKE", reason |-> "row 3"]

sheetRow(c, i) ==
    [base |-> c.base, rule |-> c.rule, ph |-> c.ph, req |-> c.req,
     finalStatus |-> outcomeOf(i).finalStatus, action |-> outcomeOf(i).action,
     reason |-> outcomeOf(i).reason]

MatrixSheets ==
    { [i \in 1..Len(cs) |-> sheetRow(cs[i], i)] : cs \in SeqsOf(MatrixConds, 0, MaxRows) }

\* Resolver.js:104-160: the flags the resolver can pass to the lookup
FlagTuples == {"WORK", "OFF"} \X {"WORK", "OFF", "NONE"} \X {"TRUE", "FALSE"}
                  \X {"NONE", "COMP_DAY", "LEAVE"}

InitMatrix ==
    /\ IdleRun
    /\ IdleLedger
    /\ IdleRules
    /\ engineCtx = [matrixIndex |-> EmptyMap, ledger |-> EmptyMap, leaves |-> EmptyMap,
                    holidays |-> {}]
    /\ cellIn = [emp |-> [id |-> <<>>], meta |-> [str |-> 0]]
    /\ cellOut = [res |-> [finalStatus |-> ""]]
    /\ cpc = "idle"
    /\ decisionSheet \in MatrixSheets
    /\ lookupFlags = <<>>
    /\ lookupRow = [reason |-> ""]
    /\ mpc = "sheet"

\* loadContext, part_001:154-181
LoadMatrix ==
    /\ mpc = "sheet"
    /\ engineCtx' = [engineCtx EXCEPT !.matrixIndex = buildMatrixIndex(decisionSheet)]
    /\ mpc' = "indexed"
    /\ UNCHANGED <<decisionSheet, lookupFlags, lookupRow, cellIn, cellOut, cpc,
                   ruleVars, ledgerVars, runVars>>

\* Resolver.js:162-175
Lookup ==
    \E flags \in FlagTuples :
        /\ mpc = "indexed"
        /\ lookupFlags' = flags
        /\ lookupRow' = matrixLookup(engineCtx.matrixIndex, flags)
        /\ mpc' = "looked"
        /\ UNCHANGED <<decisionSheet, cellVars, ruleVars, ledgerVars, runVars>>

NextMatrix == LoadMatrix \/ Lookup

SpecMatrix == InitMatrix /\ [][NextMatrix]_vars

\* A linear scan of the table in source order with the wildcard-aware match
linearScan(sheet, flags) == firstMatch(tableRows(sheet), flags)

\* Row i of the sheet with dimension dim (1..4) set to the concrete value v
literalSheet(sheet, i, dim, v) ==
    [sheet EXCEPT ![i] =
        CASE dim = 1 -> [@ EXCEPT !.base = v]
          [] dim = 2 -> [@ EXCEPT !.rule = v]
          [] dim = 3 -> [@ EXCEPT !.ph = v]
          [] OTHER -> [@ EXCEPT !.req = v]]

dimCell(row, dim) ==
    CASE dim = 1 -> row.base [] dim = 2 -> row.rule [] dim = 3 -> row.ph [] OTHER -> row.req

\* The three flags other than dim match the row
othersMatch(row, flags, dim) ==
    /\ dim = 1 \/ checkMatch(row.base, flags[1])
    /\ dim = 2 \/ checkMatch(row.rule, flags[2])
    /\ dim = 3 \/ checkMatch(row.ph, flags[3])
    /\ dim = 4 \/ checkMatch(row.req, flags[4])

\* Row i is a wildcard row in dim that the flags reach: no earlier row matches
wildcardCase(i, dim) ==
    /\ isWild(dimCell(tableRows(decisionSheet)[i], dim))
    /\ othersMatch(tableRows(decisionSheet)[i], lookupFlags, dim)
    /\ \A j \in 1..(i - 1) : ~rowMatches(tableRows(decisionSheet)[j], lookupFlags)

\* C9: wildcard expansion. A row with ANY or IGNORED in a dimension is
\* returned for every concrete value of that dimension when the other three
\* flags match it and no earlier row matches, with the final status, action
\* and reason that the table with the literal value in that row returns.
C9_WildcardExpansion ==
    mpc = "looked" =>
        \A i \in 1..Len(decisionSheet), dim \in 1..4 :
            wildcardCase(i, dim) =>
                LET literal == matrixLookup(
                        buildMatrixIndex(literalSheet(decisionSheet, i, dim, lookupFlags[dim])),
                        lookupFlags)
                IN /\ lookupRow = tableRows(decisionSheet)[i]
                   /\ lookupRow.finalStatus = literal.finalStatus
                   /\ lookupRow.action = literal.action
                   /\ lookupRow.reason = literal.reason

\* C9 witness: the second row, a wildcard in the request dimension, answers a
\* LEAVE lookup that the first row does not match
C9_Witness ==
    /\ mpc = "looked"
    /\ Len(decisionSheet) = 2
    /\ wildcardCase(2, 4)
    /\ lookupFlags[4] = "LEAVE"
    /\ lookupRow.reason = "row 2"

\* C10: row-order precedence. The two-stage lookup returns the row that the
\* linear scan of the table in source order returns first, and no row
\* exactly when the scan finds none.
C10_RowOrderPreserved ==
    mpc = "looked" =>
        /\ lookupRow = linearScan(decisionSheet, lookupFlags)
        /\ (lookupRow = NoMatch) <=>
               (\A i \in 1..Len(decisionSheet) :
                    ~rowMatches(tableRows(decisionSheet)[i], lookupFlags))

\* C10 witness: two rows match the flags, the first through a wildcard, and
\* the first is returned
C10_Witness ==
    /\ mpc = "looked"
    /\ Len(decisionSheet) = 2
    /\ rowMatches(tableRows(decisionSheet)[1], lookupFlags)
    /\ rowMatches(tableRows(decisionSheet)[2], lookupFlags)
    /\ isWild(tableRows(decisionSheet)[1].base)
    /\ ~isWild(tableRows(decisionSheet)[2].base)
    /\ lookupRow.reason = "row 1"

----------------------------------------------------------------------------
(* The engine run: loadContext, processRoster, processWorkspace *)

\* part_001:189-190: the row has a date and is not Inactive (an empty
\* activation cell reads as Active)
inSnapshot(row) ==
    /\ isDate(row.entitlementDate)
    /\ upperTrim(IF row.activation = "" THEN "Active" ELSE row.activation) # "INACTIVE"

\* part_001:183-197: the ledger snapshot, the last row of a key giving its status
ledgerSnapshot(L) ==
    LET idx == { i \in 1..Len(L) : inSnapshot(L[i]) }
        last(k) == CHOOSE i \in idx :
                      /\ ledgerKey(L[i]) = k
                      /\ \A j \in idx : ledgerKey(L[j]) = k => j <= i
    IN [k \in { ledgerKey(L[i]) : i \in idx } |-> [status |-> upperTrim(L[last(k)].status)]]

leaveKey(row) == <<normEmployee(row.employee), formatDate(parseSafeDate(row.date))>>

\* part_001:200-219: the leave map, the last row of a key giving its category
leavesMap(sheet) ==
    LET idx == { i \in 1..Len(sheet) : isDate(sheet[i].date) }
        last(k) == CHOOSE i \in idx :
                      /\ leaveKey(sheet[i]) = k
                      /\ \A j \in idx : leaveKey(sheet[j]) = k => j <= i
    IN [k \in { leaveKey(sheet[i]) : i \in idx } |-> sheet[last(k)].cat]

\* Helpers.js:63-68
parseSimpleList(sheet) ==
    { formatDate(parseSafeDate(sheet[i])) : i \in { j \in 1..Len(sheet) : isDate(sheet[j]) } }

\* part_001:142-226.  The rules index is returned next to this record
loadContext(decision, L, leaves, holidays) ==
    [matrixIndex |-> buildMatrixIndex(decision),
     ledger |-> ledgerSnapshot(L),
     leaves |-> leavesMap(leaves),
     holidays |-> parseSimpleList(holidays)]

\* part_001:102-108
empOf(r) ==
    [id |-> normEmployee(r.employee), display |-> displayName(r.employee),
     baseShift |-> r.baseShift, wo1 |-> normalizeDay(r.wo1), wo2 |-> normalizeDay(r.wo2)]

\* part_001:99-112: the cells in the order of the two loops, rows without an
\* employee and header cells without a date skipped
cellsOf(sheet) ==
    LET emps == SelectSeq(sheet.emps, LAMBDA r : r.employee # <<>>)
        dates == SelectSeq(sheet.dates, LAMBDA c : isDate(c))
        nd == Len(dates)
    IN [k \in 1..(Len(emps) * nd) |->
          <<empOf(emps[((k - 1) \div nd) + 1]), metaOf(dates[((k - 1) % nd) + 1])>>]

\* part_001:113: the result of one cell
cellResult(cell, ctx, rulesIdx) ==
    resolveEmployeeDay(cell[1], cell[2], ctx, mapGet(rulesIdx, cell[1].id, <<>>))

\* part_001:116
grantOf(cell) == [employee |-> cell[1].display, date |-> cell[2].obj]

\* part_001:117-121
revocationOf(cell, res) ==
    [employee |-> cell[1].display, dateStr |-> cell[2].str, reason |-> res.finalStatus]

\* part_001:44-125: every cell resolved in loop order, its row pushed on
\* dailyStatus and its intent on grants or revocations
processRoster(sheet, ctx, rulesIdx) ==
    LET cells == cellsOf(sheet)
        results == [k \in 1..Len(cells) |-> cellResult(cells[k], ctx, rulesIdx)]
        pairs == [k \in 1..Len(cells) |-> <<cells[k], results[k]>>]
        granting == SelectSeq(pairs, LAMBDA q : q[2].entitlementAction = "GRANT")
        revoking == SelectSeq(pairs, LAMBDA q : q[2].entitlementAction = "REVOKE")
    IN [dailyStatus |-> [k \in 1..Len(cells) |-> results[k].row],
        grants |-> [k \in 1..Len(granting) |-> grantOf(granting[k][1])],
        revocations |-> [k \in 1..Len(revoking) |-> revocationOf(revoking[k][1], revoking[k][2])]]

\* part_001:269-275: grants first, then revocations, each only when there are any
ledgerAfterGrants(dry, L, res) ==
    IF res.grants # <<>> THEN grantEntitlements(dry, L, res.grants).ledger ELSE L

ledgerAfterWorkspace(dry, L, res) ==
    LET L1 == ledgerAfterGrants(dry, L, res)
    IN IF res.revocations # <<>> THEN revokeLedger(dry, L1, res.revocations).ledger ELSE L1

MaxRuns == 2

\* Employee "A" with or without a base shift, alone or with employee "b";
\* the header holds day 1 (a Monday) and day 2
RunRosters ==
    { [dates |-> <<[day |-> 1, hour |-> 0], [day |-> 2, hour |-> 0]>>, emps |-> e] :
        e \in UNION { { <<[employee |-> <<" ", "A">>, baseShift |-> bs,
                           wo1 |-> "SAT", wo2 |-> "SUN"]>>,
                        <<[employee |-> <<" ", "A">>, baseShift |-> bs,
                           wo1 |-> "SAT", wo2 |-> "SUN"],
                          [employee |-> <<"b">>, baseShift |-> "09:00 - 18:00",
                           wo1 |-> "SAT", wo2 |-> "SUN"]>> } :
                      bs \in {"09:00 - 18:00", "OFF"} } }

\* Approved rules of employee "a": Mondays off, or another shift
RunRules ==
    { [id |-> <<"R", "1">>, employee |-> <<"a">>, type |-> "DAY_PATTERN",
       start |-> [day |-> 1, hour |-> 0], end |-> [day |-> 2, hour |-> 0], shift |-> "",
       wo1 |-> "mon", wo2 |-> "THU", freq |-> {}, status |-> "Approved",
       prio |-> <<"num", 1>>],
      [id |-> <<"R", "2">>, employee |-> <<"a">>, type |-> "SHIFT_OVERRIDE",
       start |-> [day |-> 1, hour |-> 0], end |-> [day |-> 2, hour |-> 0],
       shift |-> "10:00 - 19:00", wo1 |-> "", wo2 |-> "", freq |-> {},
       status |-> "Approved", prio |-> <<"num", 2>>] }

\* The sample table with a comp-day row that ignores the holiday flag put first
RevokeFirstMatrix ==
    <<[base |-> "WORK", rule |-> "NONE", ph |-> "ANY", req |-> "COMP_DAY",
       finalStatus |-> "COMP_DAY", action |-> "REVOKE", reason |-> "Comp day on any day"]>>
    \o SampleMatrix

\* A table that revokes on plain work days and grants on comp days
OddMatrix == <<
    [base |-> "WORK", rule |-> "ANY", ph |-> "ANY", req |-> "NONE",
     finalStatus |-> "WORK", action |-> "REVOKE", reason |-> "work revokes"],
    [base |-> "OFF", rule |-> "ANY", ph |-> "ANY", req |-> "NONE",
     finalStatus |-> "OFF", action |-> "GRANT", reason |-> "off grants"],
    [base |-> "ANY", rule |-> "ANY", ph |-> "ANY", req |-> "COMP_DAY",
     finalStatus |-> "COMP_DAY", action |-> "GRANT", reason |-> "comp day grants"],
    [base |-> "ANY", rule |-> "ANY", ph |-> "ANY", req |-> "LEAVE",
     finalStatus |-> "LEAVE", action |-> "REVOKE", reason |-> "leave revokes"] >>

\* The ledgers a first run may find: empty, one seed row, or the two Active ones
RunLedgers ==
    {<<>>} \cup { <<r>> : r \in SeedRows }
           \cup { <<r1, r2>> : r1 \in { r \in SeedRows : r.employee = <<" ", "A">> /\ r.activation = "Active" },
                               r2 \in { r \in SeedRows : r.employee = <<"b">> /\ r.activation = "Active" } }

InitRun ==
    /\ isDryRun \in BOOLEAN
    /\ ledger \in RunLedgers
    /\ lastCall = NoCall
    /\ transitions = [i \in 1..Len(ledger) |-> 0]
    /\ ruleSheet \in SeqsOf(RunRules, 0, MaxRules)
    /\ rulesIndex = EmptyMap
    /\ activeList = <<>>
    /\ winner = [type |-> "", rule |-> NoRule]
    /\ rpc = "idle"
    /\ engineCtx = [matrixIndex |-> EmptyMap, ledger |-> EmptyMap, leaves |-> EmptyMap,
                    holidays |-> {}]
    /\ cellIn = [emp |-> [id |-> <<>>], meta |-> [str |-> 0]]
    /\ cellOut = [res |-> [finalStatus |-> ""]]
    /\ cpc = "idle"
    /\ decisionSheet \in {SampleMatrix, RevokeFirstMatrix, OddMatrix}
    /\ lookupFlags = <<>>
    /\ lookupRow = [reason |-> ""]
    /\ mpc = "idle"
    /\ roster \in RunRosters
    /\ leaveSheet \in {<<>>, <<[employee |-> <<"a">>, date |-> [day |-> 1, hour |-> 0],
                               cat |-> "SICK"]>>}
    /\ holidaySheet \in {<<>>, <<[day |-> 1, hour |-> 9]>>}
    /\ out = NoOut
    /\ runs = 0
    /\ epc = "start"
    /\ granted = {}
    /\ IdlePure

\* runWorkforceEngine, part_000:59: the context is loaded once per run
LoadContext ==
    /\ epc \in {"start", "done"}
    /\ runs < MaxRuns
    /\ engineCtx' = loadContext(decisionSheet, ledger, leaveSheet, holidaySheet)
    /\ rulesIndex' = parseRules(ruleSheet)
    /\ epc' = "loaded"
    /\ UNCHANGED <<ledgerVars, ruleSheet, activeList, winner, rpc, cellIn, cellOut, cpc,
                   matrixVars, roster, leaveSheet, holidaySheet, out, runs, granted, pureVars,
                   engineVars>>

\* processWorkspace, part_001:246-277: the roster is resolved, then the
\* grants and the revocations are applied to the ledger
ProcessWorkspace ==
    LET res == processRoster(roster, engineCtx, rulesIndex)
        L1 == ledgerAfterGrants(isDryRun, ledger, res)
        L2 == ledgerAfterWorkspace(isDryRun, ledger, res)
    IN /\ epc = "loaded"
       /\ out' = res
       /\ ledger' = L2
       /\ granted' = granted \cup ((Len(ledger) + 1)..Len(L1))
       /\ transitions' = [i \in 1..Len(L2) |->
                            (IF i <= Len(ledger) THEN transitions[i] ELSE 0)
                            + (IF L1[i].activation # L2[i].activation THEN 1 ELSE 0)]
       /\ runs' = runs + 1
       /\ epc' = "done"
       /\ UNCHANGED <<isDryRun, lastCall, ruleVars, cellVars, matrixVars,
                      roster, leaveSheet, holidaySheet, pureVars, engineVars>>

NextRun == LoadContext \/ ProcessWorkspace

SpecRun == InitRun /\ [][NextRun]_vars

\* What the resolver computes for a cell of the roster under the loaded context
localsOf(cell) ==
    resolveLocals(cell[1], cell[2], engineCtx, mapGet(rulesIndex, cell[1].id, <<>>))

resultOf(cell) ==
    resolveEmployeeDay(cell[1], cell[2], engineCtx, mapGet(rulesIndex, cell[1].id, <<>>))

rosterCells == { cellsOf(roster)[k] : k \in 1..Len(cellsOf(roster)) }

\* The ledger rows of a key that are Active
activeRowsOf(L, key) ==
    { i \in 1..Len(L) : hasKey(L[i]) /\ ledgerKey(L[i]) = key /\ L[i].activation = "Active" }

\* The table reaches the row (WORK,NONE,FALSE,COMP_DAY) -> (COMP_DAY,REVOKE)
tableHasCompDayRow ==
    \E i \in 1..Len(tableRows(decisionSheet)) :
        LET row == tableRows(decisionSheet)[i]
        IN /\ row.base = "WORK" /\ row.rule = "NONE" /\ row.ph = "FALSE"
           /\ row.req = "COMP_DAY" /\ row.finalStatus = "COMP_DAY" /\ row.action = "REVOKE"
           /\ \A j \in 1..(i - 1) :
                 ~rowMatches(tableRows(decisionSheet)[j], <<"WORK", "NONE", "FALSE", "COMP_DAY">>)

\* The cell has an Active COMP_DAY entry in the snapshot, no leave, a WORK
\* base day that no rule changes, and no holiday
compDayCase(cell) ==
    LET l == localsOf(cell)
    IN /\ l.key \in DOMAIN engineCtx.ledger
       /\ engineCtx.ledger[l.key].status = "COMP_DAY"
       /\ \E i \in activeRowsOf(ledger, l.key) : ledger[i].status = "COMP_DAY"
       /\ l.key \notin DOMAIN engineCtx.leaves
       /\ l.baseFlag = "WORK"
       /\ l.ruleFlag = "NONE"
       /\ l.holidayFlag = "FALSE"
       /\ tableHasCompDayRow

\* C5: comp-day consumption end to end. In the comp-day case the cell
\* resolves to COMP_DAY with action REVOKE, the run collects exactly one
\* revoke intent for its key, and (in a live run) applying it moves the
\* Active entry to Inactive with the note "Comp Day Consumed"; no entry ever
\* makes more than one activation transition.
C5_CompDayConsumed ==
    [][(epc = "loaded" /\ epc' = "done") =>
          /\ \A i \in DOMAIN transitions' : transitions'[i] <= 1
          /\ \A cell \in rosterCells :
                compDayCase(cell) =>
                    LET key == localsOf(cell).key
                        hits == { i \in 1..Len(out'.revocations) :
                                     revokeKey(out'.revocations[i]) = key }
                    IN /\ resultOf(cell).finalStatus = "COMP_DAY"
                       /\ resultOf(cell).entitlementAction = "REVOKE"
                       /\ Cardinality(hits) = 1
                       /\ \A i \in hits : out'.revocations[i].reason = "COMP_DAY"
                       /\ ~isDryRun =>
                             \A i \in activeRowsOf(ledger, key) :
                                 /\ ledger'[i].activation = "Inactive"
                                 /\ ledger'[i].scriptNote = "Comp Day Consumed"
                                 /\ transitions'[i] = 1]_vars

\* C5 witness: a live run has consumed a comp day
C5_Witness ==
    /\ epc = "done"
    /\ ~isDryRun
    /\ \E i \in 1..Len(ledger) :
          /\ ledger[i].activation = "Inactive"
          /\ ledger[i].scriptNote = "Comp Day Consumed"
          /\ transitions[i] = 1
          /\ \E k \in 1..Len(out.revocations) :
                /\ revokeKey(out.revocations[k]) = ledgerKey(ledger[i])
                /\ out.revocations[k].reason = "COMP_DAY"

\* C7: an entry added by a grant has status COMP_DAY and activation Active,
\* so that the context loaded by a later run holds it under its key with
\* status COMP_DAY and the resolver reports it as the entitlement input.
C7_GrantedEntryReloads ==
    (epc = "loaded" /\ runs >= 1) =>
        \A i \in granted :
            ledger[i].activation = "Active" =>
                /\ ledger[i].status = "COMP_DAY"
                /\ ledgerKey(ledger[i]) \in DOMAIN engineCtx.ledger
                /\ engineCtx.ledger[ledgerKey(ledger[i])].status = "COMP_DAY"
                /\ \A cell \in rosterCells :
                      localsOf(cell).key = ledgerKey(ledger[i]) =>
                          localsOf(cell).entitlement = "COMP_DAY"

missingCells == { k \in 1..Len(cellsOf(roster)) : localsOf(cellsOf(roster)[k]).match = NoMatch }

\* C11: a missing decision is data. A cell whose bucket is absent or holds no
\* matching row gives the result ERROR with an empty shift, the reason
\* "Missing Logic", weight 0 and action NONE; it has its one audit row, no
\* grant or revoke intent carries its key, and every cell of the batch has
\* its row.
C11_MissingDecisionIsData ==
    epc = "done" =>
        /\ Len(out.dailyStatus) = Len(cellsOf(roster))
        /\ \A k \in missingCells :
              LET cell == cellsOf(roster)[k]
              IN /\ resultOf(cell).finalStatus = "ERROR"
                 /\ resultOf(cell).entitlementAction = "NONE"
                 /\ out.dailyStatus[k].key = cellKey(cell[1], cell[2])
                 /\ out.dailyStatus[k].finalStatus = "ERROR"
                 /\ out.dailyStatus[k].finalShift = ""
                 /\ out.dailyStatus[k].reason = "Missing Logic"
                 /\ out.dailyStatus[k].finalVal = 0
                 /\ \A i \in 1..Len(out.grants) :
                       grantKey(out.grants[i]) # cellKey(cell[1], cell[2])
                 /\ \A i \in 1..Len(out.revocations) :
                       revokeKey(out.revocations[i]) # cellKey(cell[1], cell[2])

\* C11 witness: a batch in which a cell without a decision is followed by a
\* cell that resolved
C11_Witness ==
    /\ epc = "done"
    /\ \E k \in missingCells :
          /\ k < Len(out.dailyStatus)
          /\ out.dailyStatus[k].finalStatus = "ERROR"
          /\ out.dailyStatus[k + 1].finalStatus # "ERROR"
          /\ localsOf(cellsOf(roster)[k]).flags \notin DOMAIN engineCtx.matrixIndex

-----------------------------------------------------------------------------
(* Resolving the cells of a roster one call at a time, in any order *)

\* The number of resolveEmployeeDay calls followed
MaxCalls == 3

\* Resolver.js:79-229 with ctx.ledger.delete(key) after the lookup: the
\* entitlement of the cell is used up by the call
resolveCall_consumesLedger(emp, meta, ctx, rules) ==
    [emp |-> emp,
     ctx |-> [ctx EXCEPT !.ledger = [q \in DOMAIN ctx.ledger \ {cellKey(emp, meta)} |->
                                        ctx.ledger[q]]],
     rules |-> rules,
     result |-> resolveEmployeeDay(emp, meta, ctx, rules)]

\* Resolver.js:79-229: the call with the objects it was handed as they are
\* when it returns. The arguments are only read: rules.filter (89) and the
\* filter and reduce of findWinningRule (240-242) build new arrays, the maps
\* of ctx are read with get and has (91, 141-146, 163), and trace (81) is a
\* local of the call
resolveCall(emp, meta, ctx, rules) ==
    [emp |-> emp,
     ctx |-> ctx,
     rules |-> rules,
     result |-> resolveEmployeeDay(emp, meta, ctx, rules)]

\* The rule index with the list of one employee as a call left it
rulesAfterCall(rulesIdx, id, rules) ==
    IF id \in DOMAIN rulesIdx THEN [rulesIdx EXCEPT ![id] = rules] ELSE rulesIdx

\* The ledgers of a run whose rows are Active, or no ledger
PureLedgers == { L \in RunLedgers : \A i \in 1..Len(L) : L[i].activation = "Active" }

\* The rosters with two employees
PureRosters == { r \in RunRosters : Len(r.emps) = 2 }

\* The state after loadContext (part_000:59) of a live run on the sample table
InitPure ==
    /\ isDryRun = FALSE
    /\ ledger \in PureLedgers
    /\ lastCall = NoCall
    /\ transitions = [i \in 1..Len(ledger) |-> 0]
    /\ ruleSheet \in SeqsOf(RunRules, 0, MaxRules)
    /\ rulesIndex = parseRules(ruleSheet)
    /\ activeList = <<>>
    /\ winner = [type |-> "", rule |-> NoRule]
    /\ rpc = "idle"
    /\ decisionSheet = SampleMatrix
    /\ lookupFlags = <<>>
    /\ lookupRow = [reason |-> ""]
    /\ mpc = "idle"
    /\ roster \in PureRosters
    /\ leaveSheet \in {<<>>, <<[employee |-> <<"a">>, date |-> [day |-> 1, hour |-> 0],
                               cat |-> "SICK"]>>}
    /\ holidaySheet \in {<<>>, <<[day |-> 1, hour |-> 9]>>}
    /\ engineCtx = loadContext(decisionSheet, ledger, leaveSheet, holidaySheet)
    /\ cellIn = [emp |-> [id |-> <<>>], meta |-> [str |-> 0]]
    /\ cellOut = [res |-> [finalStatus |-> ""]]
    /\ cpc = "idle"
    /\ out = NoOut
    /\ runs = 0
    /\ epc = "loaded"
    /\ granted = {}
    /\ IdlePure

\* What one call on cell k leaves behind
callLeaves(k, id, call) ==
    /\ engineCtx' = call.ctx
    /\ rulesIndex' = rulesAfterCall(rulesIndex, id, call.rules)
    /\ resolved' = [j \in DOMAIN resolved \cup {k} |-> IF j = k THEN call ELSE resolved[j]]
    /\ invocations' = Append(invocations, k)

\* part_001:113: resolveEmployeeDay is called on a cell of the roster; the
\* order of the calls is left open
ResolveAny ==
    /\ epc = "loaded"
    /\ Len(invocations) < MaxCalls
    /\ \E k \in 1..Len(cellsOf(roster)) :
          callLeaves(k, cellsOf(roster)[k][1].id,
                     resolveCall(cellsOf(roster)[k][1], cellsOf(roster)[k][2], engineCtx,
                                 mapGet(rulesIndex, cellsOf(roster)[k][1].id, <<>>)))
    /\ UNCHANGED <<ledgerVars, ruleSheet, activeList, winner, rpc, cellIn, cellOut, cpc,
                   matrixVars, roster, leaveSheet, holidaySheet, out, runs, epc, granted,
                   engineVars, overlapVars>>

NextPure == ResolveAny

SpecPure == InitPure /\ [][NextPure]_vars

\* The cell of the latest call
lastCell == invocations'[Len(invocations')]

-----------------------------------------------------------------------------
(* One cell resolved under a context loaded from typed-in sheets *)

\* Ledger rows of employee "A" on day 1 with every status and activation
InputLedgerRows ==
    { [employee |-> <<" ", "A">>, entitlementDate |-> [day |-> 1, hour |-> 9], status |-> s,
       activation |-> a, entitlement |-> "COMP_DAY", scriptNote |-> ""] :
        s \in {"COMP_DAY", "OFF", ""}, a \in {"Active", "Inactive"} }

\* No ledger, one row, or two rows of the same key of which the later one has
\* no status or is Inactive
InputLedgers ==
    {<<>>} \cup { <<r>> : r \in InputLedgerRows }
           \cup { <<r1, r2>> : r1 \in { r \in InputLedgerRows : r.status = "COMP_DAY" },
                               r2 \in { r \in InputLedgerRows :
                                          r.status = "" \/ r.activation = "Inactive" } }

\* Leave_Type cells: two leave categories, a blank cell, and categories
\* spelled like a status of the engine
LeaveCats == {"ANNUAL", "", "WORK", "COMP_DAY"}

InputLeaves ==
    {<<>>} \cup { <<[employee |-> <<"a">>, date |-> [day |-> 1, hour |-> 0], cat |-> c]>> :
                    c \in LeaveCats }

\* Employee "a" with a full shift, a half-day code or no shift, Monday off or not
InputEmps ==
    [id : {<<"a">>}, display : {<<"A">>}, baseShift : {"09:00 - 18:00", "HAL1", "OFF"},
     wo1 : {"SAT", "MON"}, wo2 : {"SUN"}]

\* The rules of a run, a shift override without a shift, which
\* audit_inputs keeps out of the active rules, and one whose shift is OFF
InputRules ==
    RunRules \cup
    { [id |-> <<"R", "1", "0">>, employee |-> <<"a">>, type |-> "SHIFT_OVERRIDE",
       start |-> [day |-> 1, hour |-> 0], end |-> [day |-> 2, hour |-> 0],
       shift |-> "", wo1 |-> "", wo2 |-> "", freq |-> {}, status |-> "Approved",
       prio |-> <<"num", 2>>],
      [id |-> <<"R", "1">>, employee |-> <<"a">>, type |-> "SHIFT_OVERRIDE",
       start |-> [day |-> 1, hour |-> 0], end |-> [day |-> 2, hour |-> 0],
       shift |-> "off", wo1 |-> "", wo2 |-> "", freq |-> {}, status |-> "Approved",
       prio |-> <<"num", 3>>] }

\* The two base rows and the leave row that ignores the other three inputs
BaseMatrix == <<
    [base |-> "WORK", rule |-> "NONE", ph |-> "FALSE", req |-> "NONE",
     finalStatus |-> "WORK", action |-> "NONE", reason |-> "Regular work day"],
    [base |-> "OFF", rule |-> "NONE", ph |-> "FALSE", req |-> "NONE",
     finalStatus |-> "OFF", action |-> "NONE", reason |-> "Scheduled off day"],
    [base |-> "ANY", rule |-> "ANY", ph |-> "ANY", req |-> "LEAVE",
     finalStatus |-> "LEAVE", action |-> "NONE", reason |-> "Leave takes precedence over all"] >>

\* The state after the sheets were read (part_001:141-224) and before the
\* rules are indexed; the cell is one of employee "a"
InitInputs ==
    /\ roster = [dates |-> <<>>, emps |-> <<>>]
    /\ leaveSheet \in InputLeaves
    /\ holidaySheet \in {<<>>, <<[day |-> 1, hour |-> 9]>>}
    /\ out = NoOut
    /\ runs = 0
    /\ epc = "idle"
    /\ granted = {}
    /\ IdlePure
    /\ isDryRun = FALSE
    /\ ledger \in InputLedgers
    /\ lastCall = NoCall
    /\ transitions = [i \in 1..Len(ledger) |-> 0]
    /\ ruleSheet \in SeqsOf(InputRules, 0, MaxRules)
    /\ rulesIndex = EmptyMap
    /\ activeList = <<>>
    /\ winner = [type |-> "", rule |-> NoRule]
    /\ rpc = "sheet"
    /\ decisionSheet \in {SampleMatrix, OddMatrix, BaseMatrix}
    /\ lookupFlags = <<>>
    /\ lookupRow = [reason |-> ""]
    /\ mpc = "idle"
    /\ engineCtx = loadContext(decisionSheet, ledger, leaveSheet, holidaySheet)
    /\ cellIn \in [emp : InputEmps, meta : {[str |-> 0]}]
    /\ cellOut = [res |-> [finalStatus |-> ""]]
    /\ cpc = "ready"

NextInputs == ParseRules \/ ResolveCell

SpecInputs == InitInputs /\ [][NextInputs]_vars

\* The key of the resolved cell
inputKey == cellKey(cellIn.emp, cellIn.meta)

\* The Leave_Data sheet holds a row of the cell
leaveRecordExists ==
    \E i \in 1..Len(leaveSheet) : isDate(leaveSheet[i].date) /\ leaveKey(leaveSheet[i]) = inputKey

\* The ledger snapshot holds an entry of the cell (Inactive rows are not in
\* it) whose status is COMP_DAY or OFF
entitlementEntry ==
    /\ inputKey \in DOMAIN engineCtx.ledger
    /\ engineCtx.ledger[inputKey].status \in {"COMP_DAY", "OFF"}

\* The request type of a cell as the classification rule states it
statedRequestType ==
    IF leaveRecordExists THEN "LEAVE" ELSE IF entitlementEntry THEN "COMP_DAY" ELSE "NONE"

\* C13: the request type of a cell is LEAVE iff a leave record exists for it,
\* COMP_DAY iff none exists and the ledger holds an entry of the key that is
\* not Inactive with status COMP_DAY or OFF, and NONE otherwise; with a leave
\* record and such an entry together the request type is LEAVE and the
\* entitlement field of the audit row reports the status of the entry
C13_RequestType ==
    cpc = "resolved" =>
        /\ cellOut.locals.reqFlag = statedRequestType
        /\ (leaveRecordExists /\ entitlementEntry) =>
              cellOut.res.row.entitlement = engineCtx.ledger[inputKey].status

\* The same with a leave record being a row whose Leave_Type cell is not blank
C13_RequestTypeOfTypedLeaves ==
    (cpc = "resolved" /\ \A i \in 1..Len(leaveSheet) : leaveSheet[i].cat # "") =>
        /\ cellOut.locals.reqFlag = statedRequestType
        /\ (leaveRecordExists /\ entitlementEntry) =>
              cellOut.res.row.entitlement = engineCtx.ledger[inputKey].status
        /\ (\A i \in 1..Len(ledger) : ledgerKey(ledger[i]) = inputKey =>
                                         upperTrim(ledger[i].activation) = "INACTIVE")
              => cellOut.locals.reqFlag # "COMP_DAY"

\* A leave row with a blank Leave_Type and an Active COMP_DAY entry of the cell
C13_BlankLeaveCase ==
    /\ cpc = "resolved"
    /\ leaveRecordExists
    /\ entitlementEntry
    /\ cellOut.locals.reqFlag = "COMP_DAY"

\* The flags of the resolved cell with the request type of a leave
leaveFlags ==
    <<cellOut.locals.baseFlag, cellOut.locals.ruleFlag, cellOut.locals.holidayFlag, "LEAVE">>

\* Row j of the decision table is (ANY,ANY,ANY,LEAVE)->(LEAVE,NONE)
isLeaveRow(j) ==
    /\ matrixRowOf(decisionSheet[j]).base = "ANY"
    /\ matrixRowOf(decisionSheet[j]).rule = "ANY"
    /\ matrixRowOf(decisionSheet[j]).ph = "ANY"
    /\ matrixRowOf(decisionSheet[j]).req = "LEAVE"
    /\ matrixRowOf(decisionSheet[j]).finalStatus = "LEAVE"
    /\ matrixRowOf(decisionSheet[j]).action = "NONE"

\* The table holds the leave row and no row before it matches the cell
leaveRowDecides ==
    \E j \in 1..Len(decisionSheet) :
        /\ isLeaveRow(j)
        /\ \A i \in 1..(j - 1) : ~rowMatches(matrixRowOf(decisionSheet[i]), leaveFlags)

\* The result of the cell is the leave category c with shift OFF, weight 0.0
\* and no entitlement action
leaveResult(c) ==
    /\ cellOut.res.finalStatus = c
    /\ cellOut.res.row.finalStatus = c
    /\ cellOut.res.row.finalShift = "OFF"
    /\ cellOut.res.row.finalVal = 0
    /\ cellOut.res.entitlementAction = "NONE"

C14_CompDayLeaveCase ==
    /\ cpc = "resolved"
    /\ leaveRecordExists
    /\ leaveRowDecides
    /\ engineCtx.leaves[inputKey] = "COMP_DAY"
    /\ cellOut.locals.match.finalStatus = "LEAVE"
    /\ cellOut.res.row.finalVal = 10

statedBase ==
    IF cellIn.meta.day = cellIn.emp.wo1 \/ cellIn.meta.day = cellIn.emp.wo2
       \/ cellIn.emp.baseShift = "OFF"
    THEN "OFF" ELSE "WORK"

\* Nothing overrides the cell: no active rule, no holiday, no leave record
\* and no ledger entry
noOverrides ==
    /\ cellOut.locals.activeRules = <<>>
    /\ cellIn.meta.str \notin engineCtx.holidays
    /\ ~leaveRecordExists
    /\ inputKey \notin DOMAIN engineCtx.ledger

\* Row j of the decision table is (b,NONE,FALSE,NONE)->(b,NONE)
isBaseRow(j, b) ==
    /\ matrixRowOf(decisionSheet[j]).base = b
    /\ matrixRowOf(decisionSheet[j]).rule = "NONE"
    /\ matrixRowOf(decisionSheet[j]).ph = "FALSE"
    /\ matrixRowOf(decisionSheet[j]).req = "NONE"
    /\ matrixRowOf(decisionSheet[j]).finalStatus = b
    /\ matrixRowOf(decisionSheet[j]).action = "NONE"

\* The table holds the base row of b and no row before it matches the flags
baseRowDecides(b) ==
    \E j \in 1..Len(decisionSheet) :
        /\ isBaseRow(j, b)
        /\ \A i \in 1..(j - 1) :
              ~rowMatches(matrixRowOf(decisionSheet[i]), <<b, "NONE", "FALSE", "NONE">>)

\* C15: without overrides the result mirrors the base roster. A cell with no
\* active rule, no holiday, no leave record and no ledger entry has the flags
\* (base, NONE, FALSE, NONE), base being OFF iff the weekday is one of the two
\* off-days or baseShift is OFF; decided by the rows (WORK,NONE,FALSE,NONE)->
\* (WORK,NONE) and (OFF,NONE,FALSE,NONE)->(OFF,NONE) it is WORK with the base
\* shift and weight 1.0 (0.5 for a half-day code) or OFF with shift OFF and
\* weight 0.0, and the action is NONE
C15_BaseMirror ==
    (cpc = "resolved" /\ noOverrides) =>
        /\ cellOut.locals.flags = <<statedBase, "NONE", "FALSE", "NONE">>
        /\ (baseRowDecides("WORK") /\ baseRowDecides("OFF")) =>
              /\ cellOut.res.finalStatus = statedBase
              /\ cellOut.res.row.finalStatus = statedBase
              /\ cellOut.res.entitlementAction = "NONE"
              /\ statedBase = "WORK" =>
                    /\ cellOut.res.row.finalShift = cellIn.emp.baseShift
                    /\ cellOut.res.row.finalVal =
                          IF cellIn.emp.baseShift \in {"HAL1", "HAL2"} THEN 5 ELSE 10
              /\ statedBase = "OFF" =>
                    /\ cellOut.res.row.finalShift = "OFF"
                    /\ cellOut.res.row.finalVal = 0

\* A half-day employee with Mondays off, resolved on the Tuesday under the
\* sample table, with a rule that is not active on the sheet
C15_Witness ==
    /\ cpc = "resolved"
    /\ noOverrides
    /\ baseRowDecides("WORK")
    /\ baseRowDecides("OFF")
    /\ ruleSheet # <<>>
    /\ cellIn.emp.baseShift = "HAL1"
    /\ cellIn.emp.wo1 = "MON"
    /\ cellIn.meta.day = "TUE"
    /\ cellOut.res.row.finalVal = 5

-----------------------------------------------------------------------------
(* runWorkforceEngine step by step: the loop over the active workspaces *)

\* The number of active workspaces of a run
MaxWorkspaces == 2

\* Logger.js:22-30: an entry of the buffer (run id and time left out)
logEntry(level, message) == [level |-> level, message |-> message]

\* Logger.js:58-68
logInfo(buf, message) == Append(buf, logEntry("INFO", message))
logWarn(buf, message) == Append(buf, logEntry("WARN", message))
logError(buf, message) == Append(buf, logEntry("ERROR", message))

\* Logger.js:42-45: the header row of a System_Logs sheet that was just made
logHeader == logEntry("Level", "Message")

\* Logger.js:37-56: the System_Logs sheet after flushLogs; the sheet is made
\* when it is missing and the buffer is written below its last row. The
\* function does not read CONFIG.isDryRun
flushLogs(dry, buf, sheet) ==
    IF buf = <<>> THEN sheet
    ELSE [exists |-> TRUE,
          rows |-> (IF sheet.exists THEN sheet.rows ELSE <<logHeader>>) \o buf]

\* Helpers.js:79-95: the Daily_Workforce_Status sheet after writeDailyOutput
writeDailyOutput(dry, sheet, rows) ==
    IF dry THEN sheet ELSE [exists |-> TRUE, rows |-> rows]

\* part_000:49-52: what is logged before the context is loaded
startLogs(dry) ==
    logInfo(IF dry THEN logWarn(<<>>, "dry run") ELSE <<>>, "started")

\* A workspace file: with or without the Consolidated tab, and its roster
EngineWorkspaces ==
    { [tab |-> FALSE, roster |-> [dates |-> <<>>, emps |-> <<>>]] }
    \cup { [tab |-> TRUE, roster |-> r] :
             r \in { q \in RunRosters : q.emps[1].baseShift = "09:00 - 18:00" } }

\* The bucket of b day 2, which the sample table turns into a consumed comp day
EngineLedgers ==
    { <<>>,
      <<[employee |-> <<"b">>, entitlementDate |-> [day |-> 2, hour |-> 9],
         status |-> "COMP_DAY", activation |-> "Active", entitlement |-> "COMP_DAY",
         scriptNote |-> ""]>> }

\* A Daily_Workforce_Status sheet left by an earlier run
StaleDaily == [exists |-> TRUE, rows |-> <<[key |-> <<<<"z">>, 1>>]>>]

\* The state when runWorkforceEngine is called: day 1 is a holiday, no rules
\* and no leaves; the decision table is the sample or has no rows
InitEngine ==
    /\ isDryRun \in BOOLEAN
    /\ ledger \in EngineLedgers
    /\ lastCall = NoCall
    /\ transitions = [i \in 1..Len(ledger) |-> 0]
    /\ IdleRules
    /\ engineCtx = [matrixIndex |-> EmptyMap, ledger |-> EmptyMap, leaves |-> EmptyMap,
                    holidays |-> {}]
    /\ cellIn = [emp |-> [id |-> <<>>], meta |-> [str |-> 0]]
    /\ cellOut = [res |-> [finalStatus |-> ""]]
    /\ cpc = "idle"
    /\ decisionSheet \in {SampleMatrix, <<>>}
    /\ lookupFlags = <<>>
    /\ lookupRow = [reason |-> ""]
    /\ mpc = "idle"
    /\ roster = [dates |-> <<>>, emps |-> <<>>]
    /\ leaveSheet = <<>>
    /\ holidaySheet = <<[day |-> 1, hour |-> 9]>>
    /\ out = NoOut
    /\ runs = 0
    /\ epc = "idle"
    /\ granted = {}
    /\ resolved = EmptyMap
    /\ invocations = <<>>
    /\ IdleOverlap
    /\ workspaces \in SeqsOf(EngineWorkspaces, 0, MaxWorkspaces)
    /\ wi = 0
    /\ wpc = "start"
    /\ progress = [w \in 1..Len(workspaces) |-> "untouched"]
    /\ cellsDone = 0
    /\ batch = NoOut
    /\ daily \in { [w \in 1..Len(workspaces) |-> sh] : sh \in {NoSheet, StaleDaily} }
    /\ logBuffer = <<>>
    /\ systemLogs \in {NoSheet, [exists |-> TRUE, rows |-> <<logHeader>>]}

\* part_000:35-71: the run starts, logs, loads the context once and returns
\* early, flushing the logs, when there is no active workspace or no logic
StartRun ==
    /\ wpc = "start"
    /\ engineCtx' = loadContext(decisionSheet, ledger, leaveSheet, holidaySheet)
    /\ rulesIndex' = parseRules(ruleSheet)
    /\ IF workspaces = <<>> \/ DOMAIN buildMatrixIndex(decisionSheet) = {}
       THEN /\ systemLogs' = flushLogs(isDryRun, startLogs(isDryRun), systemLogs)
            /\ logBuffer' = <<>>
            /\ wpc' = "returned"
            /\ wi' = wi
       ELSE /\ logBuffer' = startLogs(isDryRun)
            /\ wpc' = "loop"
            /\ wi' = 1
            /\ UNCHANGED systemLogs
    /\ UNCHANGED <<ledgerVars, ruleSheet, activeList, winner, rpc, cellIn, cellOut, cpc,
                   matrixVars, roster, leaveSheet, holidaySheet, out, runs, epc, granted,
                   pureVars, workspaces, progress, cellsDone, batch, daily>>

\* The time guard read at any point of the loop body
guardRead_anywhere(pc) == pc \in {"loop", "resolving", "written", "granted"}

\* part_000:80: the elapsed time is compared with MAX_RUNTIME_MS in the
\* first statement of the loop body and nowhere else
guardRead(pc) == pc = "loop"

\* part_000:80-85 and 97-100: the time guard, read at the top of an iteration,
\* finds the limit exceeded (the clock is not modelled: it may at any
\* iteration); the loop is left, and the run logs and flushes
GuardStop ==
    /\ guardRead(wpc)
    /\ wi <= Len(workspaces)
    /\ systemLogs' = flushLogs(isDryRun,
                               logInfo(logWarn(logBuffer, "time limit"), "completed"),
                               systemLogs)
    /\ logBuffer' = <<>>
    /\ wpc' = "halted"
    /\ UNCHANGED <<ledgerVars, ruleVars, cellVars, matrixVars, roster, leaveSheet,
                   holidaySheet, out, runs, epc, granted, pureVars,
                   workspaces, wi, progress, cellsDone, batch, daily>>

\* part_000:87-94 with validateWorkspace (Validation.js:47-60): the workspace
\* is logged and opened; one without its roster tab is logged twice as an
\* error (by validateWorkspace and by the catch) and the loop goes on
EnterWorkspace ==
    /\ wpc = "loop"
    /\ wi <= Len(workspaces)
    /\ IF workspaces[wi].tab
       THEN /\ logBuffer' = logInfo(logBuffer, "processing")
            /\ progress' = [progress EXCEPT ![wi] = "resolving"]
            /\ wpc' = "resolving"
            /\ wi' = wi
       ELSE /\ logBuffer' = logError(logError(logInfo(logBuffer, "processing"),
                                              "missing tabs"), "missing tabs")
            /\ progress' = [progress EXCEPT ![wi] = "invalid"]
            /\ wpc' = "loop"
            /\ wi' = wi + 1
    /\ cellsDone' = 0
    /\ batch' = NoOut
    /\ UNCHANGED <<ledgerVars, ruleVars, cellVars, matrixVars, roster, leaveSheet,
                   holidaySheet, out, runs, epc, granted, pureVars,
                   workspaces, daily, systemLogs>>

\* part_001:113-121: the result of a cell joins the rows, and its intent the
\* grants or the revocations
collect(b, cell, res) ==
    [dailyStatus |-> Append(b.dailyStatus, res.row),
     grants |-> IF res.entitlementAction = "GRANT"
                THEN Append(b.grants, grantOf(cell)) ELSE b.grants,
     revocations |-> IF res.entitlementAction = "REVOKE"
                     THEN Append(b.revocations, revocationOf(cell, res))
                     ELSE b.revocations]

\* part_001:109-122 within part_001:252-262: the next cell of the roster tab
\* is resolved
ResolveNextCell ==
    /\ wpc = "resolving"
    /\ cellsDone < Len(cellsOf(workspaces[wi].roster))
    /\ batch' = collect(batch, cellsOf(workspaces[wi].roster)[cellsDone + 1],
                        cellResult(cellsOf(workspaces[wi].roster)[cellsDone + 1],
                                   engineCtx, rulesIndex))
    /\ cellsDone' = cellsDone + 1
    /\ UNCHANGED <<ledgerVars, ruleVars, cellVars, matrixVars, roster, leaveSheet,
                   holidaySheet, out, runs, epc, granted, pureVars,
                   workspaces, wi, wpc, progress, daily, logBuffer, systemLogs>>

\* The roster loop left after its first cell
rosterDone_early(done, sheet) == done >= 1 \/ done = Len(cellsOf(sheet))

\* part_001:253-262: the forEach over the roster tabs returns when
\* processRoster has gone through every employee row and date column
rosterDone(done, sheet) == done = Len(cellsOf(sheet))

\* part_001:264-267: every cell is resolved; the rows are written to the
\* Daily_Workforce_Status sheet of the workspace when there are any
WriteOutput ==
    /\ wpc = "resolving"
    /\ rosterDone(cellsDone, workspaces[wi].roster)
    /\ daily' = [daily EXCEPT ![wi] = IF batch.dailyStatus # <<>>
                                      THEN writeDailyOutput(isDryRun, @, batch.dailyStatus)
                                      ELSE @]
    /\ progress' = [progress EXCEPT ![wi] = "written"]
    /\ wpc' = "written"
    /\ UNCHANGED <<ledgerVars, ruleVars, cellVars, matrixVars, roster, leaveSheet,
                   holidaySheet, out, runs, epc, granted, pureVars,
                   workspaces, wi, cellsDone, batch, logBuffer, systemLogs>>

\* part_001:270-272: the grants of the workspace are applied
ApplyGrants ==
    /\ wpc = "written"
    /\ ledger' = ledgerAfterGrants(isDryRun, ledger, batch)
    /\ transitions' = [i \in 1..Len(ledger') |-> IF i <= Len(ledger) THEN transitions[i] ELSE 0]
    /\ progress' = [progress EXCEPT ![wi] = "granted"]
    /\ wpc' = "granted"
    /\ UNCHANGED <<isDryRun, lastCall, ruleVars, cellVars, matrixVars, roster, leaveSheet,
                   holidaySheet, out, runs, epc, granted, pureVars,
                   workspaces, wi, cellsDone, batch, daily, logBuffer, systemLogs>>

\* part_001:273: the revocations of the workspace
ledgerAfterRevocations(dry, L, res) ==
    IF res.revocations # <<>> THEN revokeLedger(dry, L, res.revocations).ledger ELSE L

\* part_001:273-276 and part_000:76: the revocations are applied,
\* processWorkspace returns and the loop goes to the next workspace
ApplyRevocations ==
    /\ wpc = "granted"
    /\ ledger' = ledgerAfterRevocations(isDryRun, ledger, batch)
    /\ transitions' = [i \in 1..Len(ledger) |->
                         transitions[i] + (IF ledger'[i].activation # ledger[i].activation
                                           THEN 1 ELSE 0)]
    /\ progress' = [progress EXCEPT ![wi] = "done"]
    /\ wpc' = "loop"
    /\ wi' = wi + 1
    /\ UNCHANGED <<isDryRun, lastCall, ruleVars, cellVars, matrixVars, roster, leaveSheet,
                   holidaySheet, out, runs, epc, granted, pureVars,
                   workspaces, cellsDone, batch, daily, logBuffer, systemLogs>>

\* part_000:96-103: the loop is over; the run logs its duration and flushes
Complete ==
    /\ wpc = "loop"
    /\ wi > Len(workspaces)
    /\ systemLogs' = flushLogs(isDryRun, logInfo(logBuffer, "completed"), systemLogs)
    /\ logBuffer' = <<>>
    /\ wpc' = "finished"
    /\ UNCHANGED <<ledgerVars, ruleVars, cellVars, matrixVars, roster, leaveSheet,
                   holidaySheet, out, runs, epc, granted, pureVars,
                   workspaces, wi, progress, cellsDone, batch, daily>>

NextEngine ==
    \/ StartRun
    \/ GuardStop
    \/ EnterWorkspace
    \/ ResolveNextCell
    \/ WriteOutput
    \/ ApplyGrants
    \/ ApplyRevocations
    \/ Complete

SpecEngine == InitEngine /\ [][NextEngine]_vars

\* The run is over
runOver == wpc \in {"returned", "halted", "finished"}

\* C16: a dry run writes nothing. With CONFIG.isDryRun true no step of
\* runWorkforceEngine, whatever the workspaces, the results and the exit
\* path, changes the ledger, a Daily_Workforce_Status sheet or the
\* System_Logs sheet, and no sheet is created
C16_DryRunWritesNothing ==
    [][ isDryRun => /\ ledger' = ledger
                    /\ daily' = daily
                    /\ systemLogs' = systemLogs ]_vars

\* The part of it that holds: the ledger and the output sheets of a dry run
C16_DryRunKeepsLedgerAndOutput ==
    [][ isDryRun => /\ ledger' = ledger
                    /\ daily' = daily ]_vars

\* A dry run that ended with a System_Logs sheet it made and wrote its
\* entries to, after resolving cells that ask for a grant
C16_DryRunLogged ==
    /\ isDryRun
    /\ wpc = "finished"
    /\ systemLogs.exists
    /\ Len(systemLogs.rows) > 1
    /\ systemLogs.rows[2] = logEntry("WARN", "dry run")
    /\ batch.grants # <<>>

\* What the complete resolution of the current workspace collects
fullBatch == processRoster(workspaces[wi].roster, engineCtx, rulesIndex)

\* C17: resolution precedes ledger mutation. In processWorkspace the ledger
\* changes only in the grant and the revocation step, both come after every
\* cell of the roster tab of the workspace is resolved, and the batches they
\* apply are exactly the GRANT and REVOKE intents of that complete resolution
C17_ResolutionBeforeLedger ==
    [][ /\ ledger' # ledger => wpc \in {"written", "granted"}
        /\ wpc \in {"written", "granted"} =>
              /\ cellsDone = Len(cellsOf(workspaces[wi].roster))
              /\ batch = fullBatch
        /\ (wpc = "written" /\ wpc' = "granted") =>
              ledger' = ledgerAfterGrants(isDryRun, ledger, fullBatch)
        /\ (wpc = "granted" /\ wpc' = "loop") =>
              ledger' = ledgerAfterRevocations(isDryRun, ledger, fullBatch) ]_vars

\* A live run applied the grants and the revocation of a workspace of four
\* cells: two rows were added and the row of b on day 2 is Inactive
C17_Witness ==
    /\ ~isDryRun
    /\ wi = 2
    /\ progress[1] = "done"
    /\ cellsDone = 4
    /\ Len(batch.grants) = 2
    /\ Len(batch.revocations) = 1
    /\ Len(ledger) = 3
    /\ ledger[1].activation = "Inactive"

\* The ledger rows of the key of a revocation are all Inactive
revoked(r) ==
    \A i \in 1..Len(ledger) :
        (hasKey(ledger[i]) /\ ledgerKey(ledger[i]) = revokeKey(r)) =>
            ledger[i].activation = "Inactive"

\* Workspace w is completely processed: its rows are its output sheet, every
\* grant of it has its ledger row and every revocation of it is applied
completelyProcessed(w, full) ==
    /\ progress[w] = "done"
    /\ ~isDryRun =>
          /\ daily[w] = [exists |-> TRUE, rows |-> full.dailyStatus]
          /\ \A g \in 1..Len(full.grants) :
                \E i \in 1..Len(ledger) :
                    hasKey(ledger[i]) /\ ledgerKey(ledger[i]) = grantKey(full.grants[g])
          /\ \A r \in 1..Len(full.revocations) : revoked(full.revocations[r])

\* Workspace w is not started: nothing of it is resolved or written
notStarted(w) ==
    /\ progress[w] \in {"untouched", "invalid"}
    /\ daily[w] \in {NoSheet, StaleDaily}

\* C18: the time guard cancels only between workspaces. When it stops a run
\* every workspace before the stopping point is completely processed (cells
\* resolved, output written, grants and revocations applied) or was not
\* started, none is left with its grants applied and its revocations
\* pending, and every workspace from the stopping point on is untouched
C18_GuardBetweenUnits ==
    wpc = "halted" =>
        \A w \in 1..Len(workspaces) :
            /\ progress[w] \notin {"resolving", "written", "granted"}
            /\ w < wi =>
                  \/ notStarted(w)
                  \/ completelyProcessed(w, processRoster(workspaces[w].roster,
                                                          engineCtx, rulesIndex))
            /\ w >= wi => (progress[w] = "untouched" /\ daily[w] \in {NoSheet, StaleDaily})

\* The guard stopped a live run after the first of two workspaces, whose two
\* grants and one revocation are in the ledger; the second has a roster too
C18_Witness ==
    /\ wpc = "halted"
    /\ ~isDryRun
    /\ wi = 2
    /\ Len(workspaces) = 2
    /\ workspaces[2].tab
    /\ progress = <<"done", "untouched">>
    /\ Len(ledger) = 3
    /\ ledger[1].activation = "Inactive"
    /\ daily[1].exists /\ Len(daily[1].rows) = 4

-----------------------------------------------------------------------------
(* The ledger update of processWorkspace write by write, in two runs that
   overlap (nothing in the code takes a lock) *)

Runs == {1, 2}

\* What a workspace may stage: a grant for A on day 1, a revocation for b on
\* day 2, both or neither
StagedBatches ==
    [grants : {<<>>, <<[employee |-> <<"A">>, date |-> [day |-> 1, hour |-> 0]]>>},
     revocations : {<<>>, <<[employee |-> <<"b">>, dateStr |-> 2, reason |-> "COMP_DAY"]>>}]

NoBuffers == [adds |-> <<>>, actCol |-> <<>>, noteCol |-> <<>>]

\* Two live runs have resolved their workspaces and come to part_001:269
InitOverlap ==
    /\ isDryRun = FALSE
    /\ ledger \in EngineLedgers
    /\ lastCall = NoCall
    /\ transitions = [i \in 1..Len(ledger) |-> 0]
    /\ IdleRules
    /\ IdleCell
    /\ roster = [dates |-> <<>>, emps |-> <<>>]
    /\ leaveSheet = <<>>
    /\ holidaySheet = <<>>
    /\ out = NoOut
    /\ runs = 0
    /\ epc = "idle"
    /\ granted = {}
    /\ IdleEngine
    /\ resolved = EmptyMap
    /\ invocations = <<>>
    /\ opc = [r \in Runs |-> "grants"]
    /\ staged \in [Runs -> StagedBatches]
    /\ buffers = [r \in Runs |-> NoBuffers]

\* The other variables of a step of the ledger update
overlapFrame ==
    UNCHANGED <<isDryRun, lastCall, transitions, ruleVars, cellVars, matrixVars, roster,
                leaveSheet, holidaySheet, out, runs, epc, granted, engineVars,
                resolved, invocations, staged>>

\* part_001:272 and Ledger.js:27-52: with grants staged, grantEntitlements
\* reads the sheet and builds the rows to add
GrantRead(r) ==
    /\ opc[r] = "grants"
    /\ IF staged[r].grants = <<>>
       THEN /\ opc' = [opc EXCEPT ![r] = "revocations"]
            /\ UNCHANGED buffers
       ELSE /\ buffers' = [buffers EXCEPT ![r].adds =
                              grantAdds(staged[r].grants, existingKeys(ledger))]
            /\ opc' = [opc EXCEPT ![r] = "grantWrite"]
    /\ UNCHANGED ledger
    /\ overlapFrame

\* Ledger.js:53: the rows are written below the last row the sheet has then
GrantWrite(r) ==
    /\ opc[r] = "grantWrite"
    /\ ledger' = ledger \o buffers[r].adds
    /\ opc' = [opc EXCEPT ![r] = "revocations"]
    /\ UNCHANGED buffers
    /\ overlapFrame

\* Ledger.js:88-89 and 91-105: the two column buffers of the sheet as read
actColOf(L, revocations) ==
    [i \in 1..Len(L) |-> IF revokeHits(revocations, L[i]) THEN "Inactive" ELSE L[i].activation]

noteColOf(L, revocations) ==
    [i \in 1..Len(L) |-> IF revokeHits(revocations, L[i])
                         THEN revokeRow(revocations, L[i]).scriptNote ELSE L[i].scriptNote]

\* part_001:273 and Ledger.js:72-105: with revocations staged, revokeLedger
\* reads the sheet and fills its column buffers; without a hit it returns
RevokeRead(r) ==
    /\ opc[r] = "revocations"
    /\ IF staged[r].revocations = <<>>
          \/ ~\E i \in 1..Len(ledger) : revokeHits(staged[r].revocations, ledger[i])
       THEN /\ opc' = [opc EXCEPT ![r] = "done"]
            /\ UNCHANGED buffers
       ELSE /\ buffers' = [buffers EXCEPT
                              ![r].actCol = actColOf(ledger, staged[r].revocations),
                              ![r].noteCol = noteColOf(ledger, staged[r].revocations)]
            /\ opc' = [opc EXCEPT ![r] = "actWrite"]
    /\ UNCHANGED ledger
    /\ overlapFrame

\* Ledger.js:109: the activation column is written from its buffer
ActWrite(r) ==
    /\ opc[r] = "actWrite"
    /\ ledger' = [i \in 1..Len(ledger) |->
                    IF i <= Len(buffers[r].actCol)
                    THEN [ledger[i] EXCEPT !.activation = buffers[r].actCol[i]]
                    ELSE ledger[i]]
    /\ opc' = [opc EXCEPT ![r] = "noteWrite"]
    /\ UNCHANGED buffers
    /\ overlapFrame

\* Ledger.js:111-113: the note column is written from its buffer
NoteWrite(r) ==
    /\ opc[r] = "noteWrite"
    /\ ledger' = [i \in 1..Len(ledger) |->
                    IF i <= Len(buffers[r].noteCol)
                    THEN [ledger[i] EXCEPT !.scriptNote = buffers[r].noteCol[i]]
                    ELSE ledger[i]]
    /\ opc' = [opc EXCEPT ![r] = "done"]
    /\ UNCHANGED buffers
    /\ overlapFrame

NextOverlap ==
    \E r \in Runs :
        \/ GrantRead(r)
        \/ GrantWrite(r)
        \/ RevokeRead(r)
        \/ ActWrite(r)
        \/ NoteWrite(r)

SpecOverlap == InitOverlap /\ [][NextOverlap]_vars

\* The staged grants of run r have their rows on the sheet
grantsApplied(r) ==
    \A g \in 1..Len(staged[r].grants) :
        \E i \in 1..Len(ledger) :
            hasKey(ledger[i]) /\ ledgerKey(ledger[i]) = grantKey(staged[r].grants[g])

\* The staged revocations of run r have left no row of their keys that is
\* not Inactive
revocationsApplied(r) ==
    \A v \in 1..Len(staged[r].revocations) :
        \A i \in 1..Len(ledger) :
            (hasKey(ledger[i]) /\ ledgerKey(ledger[i]) = revokeKey(staged[r].revocations[v]))
                => ledger[i].activation = "Inactive"

\* The rows of a key
rowsOf(key) == { i \in 1..Len(ledger) : hasKey(ledger[i]) /\ ledgerKey(ledger[i]) = key }

\* C19: the ledger update of a workspace is atomic for readers. No state of
\* the sheet has an entry that is Inactive with its note not yet written,
\* or has the grants of a workspace applied and its revocations not; and two
\* overlapping runs that stage a grant for the same key leave one entry
C19_AtomicLedgerUpdate ==
    /\ \A i \in 1..Len(ledger) : ledger[i].activation = "Inactive" => ledger[i].scriptNote # ""
    /\ \A r \in Runs :
          (staged[r].grants # <<>> /\ staged[r].revocations # <<>> /\ opc[r] # "grants"
              /\ grantsApplied(r)) => revocationsApplied(r)
    /\ (\A r \in Runs : opc[r] = "done") =>
          \A r1, r2 \in Runs : \A g \in 1..Len(staged[r1].grants) :
              (r1 # r2 /\ staged[r2].grants = staged[r1].grants) =>
                  Cardinality(rowsOf(grantKey(staged[r1].grants[g]))) = 1

\* Its first part alone: an Inactive entry has its note
C19_NoteWithActivation ==
    \A i \in 1..Len(ledger) : ledger[i].activation = "Inactive" => ledger[i].scriptNote # ""

\* Its second part alone: grants applied, revocations still to come
C19_GrantsWithRevocations ==
    \A r \in Runs :
        (staged[r].grants # <<>> /\ staged[r].revocations # <<>> /\ opc[r] # "grants"
            /\ grantsApplied(r)) => revocationsApplied(r)

\* Its third part alone: one entry for a key both runs granted
C19_OneEntryPerKey ==
    (\A r \in Runs : opc[r] = "done") =>
        \A r1, r2 \in Runs : \A g \in 1..Len(staged[r1].grants) :
            (r1 # r2 /\ staged[r2].grants = staged[r1].grants) =>
                Cardinality(rowsOf(grantKey(staged[r1].grants[g]))) = 1

-----------------------------------------------------------------------------
(* The order of the rule lists of the index *)

\* The classes the comparator of the sort puts rules in
isDayPattern(r) == r.type = "DAY_PATTERN"

isAllFreq(r) == r.freq = {"ALL"}

sameClass(a, b) ==
    /\ isDayPattern(a) = isDayPattern(b)
    /\ isAllFreq(a) = isAllFreq(b)

\* Every pair a before b of every rule list of the index satisfies P
orderedPairs(P(_, _)) ==
    \A e \in DOMAIN rulesIndex :
        \A i, j \in 1..Len(rulesIndex[e]) :
            i < j => P(rulesIndex[e][i], rulesIndex[e][j])

\* C20 as stated, for a placed before b: a is DAY_PATTERN or b is not; of
\* the same kind, a has a non-ALL frequency or b has frequency ALL; of the
\* same frequency class too, a's priority is at least b's; and with equal
\* priorities a's id is lexicographically greater than b's
statedOrder(a, b) ==
    /\ isDayPattern(a) \/ ~isDayPattern(b)
    /\ isDayPattern(a) = isDayPattern(b) => (~isAllFreq(a) \/ isAllFreq(b))
    /\ sameClass(a, b) => a.prio >= b.prio
    /\ (sameClass(a, b) /\ a.prio = b.prio) => localeCompare(a.id, b.id) > 0

\* C20: the rule index ordering. In every rule list of the index, for any
\* two rules a placed before b: a is DAY_PATTERN or b is not; with the same
\* kind, a has a non-ALL frequency or b has frequency ALL; with the same
\* frequency class too, a's priority is greater than or equal to b's; and
\* with equal priorities a's id is lexicographically greater than b's
C20_RuleIndexOrdering == orderedPairs(statedOrder)

\* The order the sort gives: the first three levels, and on equal priorities
\* the id of a is not greater than the id of b
sortedOrder(a, b) ==
    /\ isDayPattern(a) \/ ~isDayPattern(b)
    /\ isDayPattern(a) = isDayPattern(b) => (~isAllFreq(a) \/ isAllFreq(b))
    /\ sameClass(a, b) => a.prio >= b.prio
    /\ (sameClass(a, b) /\ a.prio = b.prio) => localeCompare(a.id, b.id) <= 0

C20_AscendingIds == orderedPairs(sortedOrder)

\* Two rules of one class and one priority with different ids, in the index
C20_TieCase ==
    \E e \in DOMAIN rulesIndex :
        /\ Len(rulesIndex[e]) = 2
        /\ sameClass(rulesIndex[e][1], rulesIndex[e][2])
        /\ rulesIndex[e][1].prio = rulesIndex[e][2].prio
        /\ rulesIndex[e][1].id # rulesIndex[e][2].id

-----------------------------------------------------------------------------
(* SHIFT_OVERRIDE rules without a shift value *)

\* A SHIFT_OVERRIDE rule whose shift is empty after String() and trim()
isMalformed(r) == r.type = "SHIFT_OVERRIDE" /\ upperTrim(r.shift) = ""

\* The rule lists of the index hold no malformed rule
indexHasNoMalformed ==
    \A e \in DOMAIN rulesIndex :
        \A i \in 1..Len(rulesIndex[e]) : ~isMalformed(rulesIndex[e][i])

\* Every approved DAY_PATTERN row with an employee and a start date is in
\* the list of its employee
dayPatternsKept ==
    \A i \in 1..Len(ruleSheet) :
        (ruleLoads(ruleSheet[i]) /\ typeOf(ruleSheet[i].type) = "DAY_PATTERN") =>
            /\ normEmployee(ruleSheet[i].employee) \in DOMAIN rulesIndex
            /\ \E j \in 1..Len(rulesIndex[normEmployee(ruleSheet[i].employee)]) :
                  rulesIndex[normEmployee(ruleSheet[i].employee)][j] = ruleOf(ruleSheet[i])

\* No malformed rule is active for the resolved cell, and none won Pass 2
malformedNeverActive ==
    /\ \A i \in 1..Len(cellOut.locals.activeRules) :
          ~isMalformed(cellOut.locals.activeRules[i])
    /\ findWinningRule(cellOut.locals.activeRules, "SHIFT_OVERRIDE").id # <<>> =>
          ~isMalformed(findWinningRule(cellOut.locals.activeRules, "SHIFT_OVERRIDE"))

\* C21: malformed SHIFT_OVERRIDE rules are dropped at load. Once the rule
\* index is built, no employee's rule list contains a SHIFT_OVERRIDE rule
\* whose shift value is empty after string coercion and trimming, while every
\* approved DAY_PATTERN rule with a valid start date is kept even when its
\* shift value is empty; and such a SHIFT_OVERRIDE rule is never in the
\* active rule set of a cell and never wins Pass 2.
C21_MalformedDroppedAtLoad ==
    /\ rpc = "indexed" => (indexHasNoMalformed /\ dayPatternsKept)
    /\ cpc = "resolved" => malformedNeverActive

\* What holds of the index and of the cell: the DAY_PATTERN rows are kept
\* and the filter of resolveEmployeeDay keeps malformed rules out
C21_MalformedNeverActive ==
    /\ rpc = "indexed" => dayPatternsKept
    /\ cpc = "resolved" => malformedNeverActive

\* A cell resolved with a malformed SHIFT_OVERRIDE rule and a DAY_PATTERN
\* rule without a shift in the list of its employee
C21_MalformedCase ==
    /\ cpc = "resolved"
    /\ cellIn.emp.id \in DOMAIN rulesIndex
    /\ \E i, j \in 1..Len(rulesIndex[cellIn.emp.id]) :
          /\ isMalformed(rulesIndex[cellIn.emp.id][i])
          /\ rulesIndex[cellIn.emp.id][j].type = "DAY_PATTERN"
          /\ rulesIndex[cellIn.emp.id][j].shift = ""

-----------------------------------------------------------------------------
(* TestHarness.js: the mock context and the tests of resolveEmployeeDay *)

\* part_002:39-46: addRow files the row under the key made of its four
\* cells as they are written
addRow(matrixIndex, b, r, p, q, final, action) ==
    LET k == <<b, r, p, q>>
        row == [base |-> b, rule |-> r, ph |-> p, req |-> q, finalStatus |-> final,
                action |-> action, reason |-> "Mock Rule"]
    IN [x \in DOMAIN matrixIndex \cup {k} |->
          IF x = k THEN mapGet(matrixIndex, k, <<>>) \o <<row>> ELSE matrixIndex[x]]

\* part_002:48-52: the five rows of the mock decision matrix
mockMatrixIndex ==
    addRow(addRow(addRow(addRow(addRow(EmptyMap,
        "WORK", "NONE", "FALSE", "NONE", "WORK", "NONE"),
        "OFF", "NONE", "FALSE", "NONE", "OFF", "NONE"),
        "WORK", "NONE", "TRUE", "NONE", "WORK", "GRANT"),
        "ANY", "ANY", "ANY", "LEAVE", "LEAVE", "NONE"),
        "WORK", "NONE", "FALSE", "COMP_DAY", "COMP_DAY", "REVOKE")

\* part_002:36-62
getMockContext ==
    [matrixIndex |-> mockMatrixIndex, ledger |-> EmptyMap, leaves |-> EmptyMap,
     holidays |-> {}]

\* The employee of the tests, also without a shift and with Monday off
TestEmps ==
    [id : {<<"a">>}, display : {<<"A">>}, baseShift : {"09:00-18:00", "OFF"},
     wo1 : {"SAT", "MON"}, wo2 : {"SUN"}]

\* The leave categories the tests set
TestLeaves == {"ANNUAL_LEAVE", "COMP_DAY"}

InitHarness ==
    /\ IdleRun
    /\ IdleLedger
    /\ IdleRules
    /\ IdleCell

\* part_002:77, 97, 116, 137, 158: const ctx = getMockContext()
GetMockContext ==
    /\ cpc = "idle"
    /\ engineCtx' = getMockContext
    /\ cpc' = "mocked"
    /\ UNCHANGED <<cellIn, cellOut, ruleVars, ledgerVars, matrixVars, runVars>>

\* part_002:117: ctx.holidays.add(date)
AddHoliday ==
    \E d \in HeaderDates :
        /\ cpc = "mocked"
        /\ formatDate(d) \notin engineCtx.holidays
        /\ engineCtx' = [engineCtx EXCEPT !.holidays = @ \cup {formatDate(d)}]
        /\ UNCHANGED <<cellIn, cellOut, cpc, ruleVars, ledgerVars, matrixVars, runVars>>

\* part_002:139 and 162: ctx.leaves.set(key, category) for the test employee
SetLeave ==
    \E d \in HeaderDates, cat \in TestLeaves :
        /\ cpc = "mocked"
        /\ engineCtx.leaves = EmptyMap
        /\ engineCtx' = [engineCtx EXCEPT
                            !.leaves = [k \in {<<<<"a">>, formatDate(d)>>} |-> cat]]
        /\ UNCHANGED <<cellIn, cellOut, cpc, ruleVars, ledgerVars, matrixVars, runVars>>

\* part_002:89, 109, 129, 151, 174: resolveEmployeeDay(emp, meta, ctx, [])
ResolveTest ==
    \E emp \in TestEmps, d \in HeaderDates :
        /\ cpc = "mocked"
        /\ cellIn' = [emp |-> emp, meta |-> metaOf(d)]
        /\ cellOut' = [locals |-> resolveLocals(emp, metaOf(d), engineCtx, <<>>),
                       res |-> resolveEmployeeDay(emp, metaOf(d), engineCtx, <<>>)]
        /\ cpc' = "resolved"
        /\ UNCHANGED <<engineCtx, ruleVars, ledgerVars, matrixVars, runVars>>

NextHarness == GetMockContext \/ AddHoliday \/ SetLeave \/ ResolveTest

SpecHarness == InitHarness /\ [][NextHarness]_vars

\* The resolved cell is a base WORK day
testBaseWork == cellOut.locals.baseFlag = "WORK"

\* The leave record of the resolved cell, "" when there is none
testLeave == mapGet(engineCtx.leaves, cellKey(cellIn.emp, cellIn.meta), "")

\* The wildcard leave row is in the index, under its literal key only
wildcardUnderLiteralKey ==
    \A k \in DOMAIN engineCtx.matrixIndex :
        (\E i \in 1..Len(engineCtx.matrixIndex[k]) :
            engineCtx.matrixIndex[k][i].base = "ANY") <=> k = <<"ANY", "ANY", "ANY", "LEAVE">>

\* C22: the leave test. With the mock context, whose index holds the
\* wildcard row (ANY,ANY,ANY,LEAVE)->(LEAVE,NONE) only under its literal
\* key, a cell on a base WORK day that has a leave record resolves to the
\* final status LEAVE.
C22_LeaveTest ==
    (cpc = "resolved" /\ wildcardUnderLiteralKey /\ testBaseWork /\ testLeave # "") =>
        cellOut.res.finalStatus = "LEAVE"

\* What the leave test gets: the lookup key WORK|NONE|ph|LEAVE has no bucket
\* in the mock index, so the cell is an ERROR cell with no entitlement action
C22_LeaveTestIsError ==
    (cpc = "resolved" /\ testBaseWork /\ testLeave # "") =>
        /\ cellOut.locals.match = NoMatch
        /\ cellOut.res.finalStatus = "ERROR"
        /\ cellOut.res.row.reason = "Missing Logic"
        /\ cellOut.res.entitlementAction = "NONE"

\* The leave test: ANNUAL_LEAVE on a base WORK day without a holiday
C22_LeaveTestCase ==
    /\ cpc = "resolved"
    /\ wildcardUnderLiteralKey
    /\ testBaseWork
    /\ testLeave = "ANNUAL_LEAVE"
    /\ engineCtx.holidays = {}

\* The mock index has the row (WORK,NONE,FALSE,COMP_DAY)->(COMP_DAY,REVOKE)
hasCompDayRow ==
    /\ <<"WORK", "NONE", "FALSE", "COMP_DAY">> \in DOMAIN engineCtx.matrixIndex
    /\ engineCtx.matrixIndex[<<"WORK", "NONE", "FALSE", "COMP_DAY">>][1].finalStatus = "COMP_DAY"
    /\ engineCtx.matrixIndex[<<"WORK", "NONE", "FALSE", "COMP_DAY">>][1].action = "REVOKE"

\* C23: the comp-day test. A comp-day request supplied through the leave
\* input (a leave record of category COMP_DAY) on a base WORK, non-holiday
\* day with no rules resolves, given the table row
\* (WORK,NONE,FALSE,COMP_DAY)->(COMP_DAY,REVOKE), to the final status
\* COMP_DAY with the entitlement action REVOKE.
C23_CompDayTest ==
    (/\ cpc = "resolved"
     /\ hasCompDayRow
     /\ testBaseWork
     /\ cellOut.locals.holidayFlag = "FALSE"
     /\ testLeave = "COMP_DAY") =>
        /\ cellOut.res.finalStatus = "COMP_DAY"
        /\ cellOut.res.entitlementAction = "REVOKE"

\* What the comp-day test gets: a leave record of any category makes the
\* request flag LEAVE, so the COMP_DAY row is never looked up
C23_LeaveInputIsLeaveRequest ==
    (cpc = "resolved" /\ testLeave # "") =>
        /\ cellOut.locals.reqFlag = "LEAVE"
        /\ cellOut.res.entitlementAction # "REVOKE"

\* The comp-day test: COMP_DAY as leave category on a base WORK day
C23_CompDayTestCase ==
    /\ cpc = "resolved"
    /\ hasCompDayRow
    /\ testBaseWork
    /\ cellOut.locals.holidayFlag = "FALSE"
    /\ testLeave = "COMP_DAY"

-----------------------------------------------------------------------------
(* The index order against the winner comparison *)

\* Resolver.js:329-333: the comparison of the reduce does not replace a by b
prefers(a, b) ==
    \/ a.prio > b.prio
    \/ a.prio = b.prio /\ localeCompare(a.id, b.id) >= 0

\* The active rules of the kind that was asked for, in list order
activeOfKind == SelectSeq(activeList, LAMBDA r : r.type = winner.type)

\* Every active rule is preferred to the active rules of its kind behind it
earlierPreferred ==
    \A i, j \in 1..Len(activeList) :
        (i < j /\ activeList[i].type = activeList[j].type) =>
            prefers(activeList[i], activeList[j])

\* C24: the index order agrees with winner selection. For any two rules of
\* the same kind in one employee's index list that are both active for a
\* cell, the rule placed earlier by the index ordering is the rule the winner
\* comparison (higher priority, then lexicographically greater id) prefers;
\* hence the first active rule of a kind in the list is the rule
\* findWinningRule returns for that kind.
C24_IndexOrderAgrees ==
    /\ rpc \in {"filtered", "won"} => earlierPreferred
    /\ (rpc = "won" /\ activeOfKind # <<>>) => winner.rule = Head(activeOfKind)

\* What the index order gives: the winner has the priority of the first
\* active rule of its kind (no rule having the priority -1 of the
\* placeholder of the reduce), and with equal priorities the ids ascend
C24_FirstHasWinningPriority ==
    /\ (/\ rpc = "won"
        /\ activeOfKind # <<>>
        /\ \A i \in 1..Len(activeOfKind) : activeOfKind[i].prio # -1) =>
            winner.rule.prio = Head(activeOfKind).prio
    /\ rpc \in {"filtered", "won"} =>
          \A i, j \in 1..Len(activeList) :
              (i < j /\ activeList[i].type = activeList[j].type) =>
                  /\ activeList[i].prio >= activeList[j].prio
                  /\ activeList[i].prio = activeList[j].prio =>
                        localeCompare(activeList[i].id, activeList[j].id) <= 0

\* Two active rules of the asked kind with one priority and different ids
C24_TieCase ==
    /\ rpc = "won"
    /\ Len(activeOfKind) = 2
    /\ activeOfKind[1].prio = activeOfKind[2].prio
    /\ activeOfKind[1].id # activeOfKind[2].id
    /\ winner.rule = activeOfKind[2]

-----------------------------------------------------------------------------
(* The mirror audit against Pass 2 *)

\* The Pass 2 winner of the resolved cell
winnerSHIFT == findWinningRule(cellOut.locals.activeRules, "SHIFT_OVERRIDE")

\* The assertion of the mirror audit on the result of the resolved cell
auditAssertion ==
    (cellOut.locals.isWorkDay /\ winnerSHIFT.id # <<>> /\ winnerSHIFT.shift # "") =>
        \/ cellOut.res.row.finalShift = winnerSHIFT.shift
        \/ cellOut.res.row.finalShift = "OFF"

\* Status, shift, weight and action of the result are those of the matched row
computedFromMatch ==
    LET m == cellOut.locals.match
        status == IF m.finalStatus = "LEAVE" THEN cellOut.locals.leave ELSE m.finalStatus
    IN /\ cellOut.res.finalStatus = status
       /\ cellOut.res.row.finalStatus = status
       /\ cellOut.res.row.finalShift =
             (IF status = "WORK" THEN cellOut.locals.currentShift ELSE "OFF")
       /\ cellOut.res.row.finalVal =
             (IF status = "WORK"
              THEN (IF cellOut.locals.currentShift \in {"HAL1", "HAL2"} THEN 5 ELSE 10)
              ELSE IF status = "COMP_DAY" THEN 10 ELSE 0)
       /\ cellOut.res.entitlementAction = m.action

\* The result is not the error result
matched == cpc = "resolved" /\ cellOut.res.finalStatus # "ERROR"

\* The Pass 2 winner carries OFF as its shift, in any spelling
offWinner == winnerSHIFT.id # <<>> /\ upperTrim(winnerSHIFT.shift) = "OFF"

C25_OffWinnerCase ==
    /\ matched
    /\ offWinner
    /\ cellOut.res.finalStatus = "WORK"
    /\ cellOut.res.row.reason = "AUDIT FAIL"

-----------------------------------------------------------------------------
(* The schedule of a run against the schedule of the run before it *)

\* Status, shift and weight of the rows of a schedule, in cell order
reported(rows) ==
    [k \in 1..Len(rows) |->
        [key |-> rows[k].key, finalStatus |-> rows[k].finalStatus,
         finalShift |-> rows[k].finalShift, finalVal |-> rows[k].finalVal]]

\* A run after a completed run processes its workspace
rerunStep == runs >= 1 /\ epc = "loaded" /\ epc' = "done"

\* Every cell the earlier run reported as COMP_DAY is reported as COMP_DAY again
compDayKept ==
    \A k \in 1..Len(out.dailyStatus) :
        out.dailyStatus[k].finalStatus = "COMP_DAY" =>
            out'.dailyStatus[k].finalStatus = "COMP_DAY"

\* C26: re-running does not change the reported schedule. With roster,
\* rules, holidays, leave records and decision table held fixed, a second
\* complete run that reloads its context from the ledger left by the first
\* run reports for every (employee, date) cell the same final status, final
\* shift and weight as the first run; in particular a cell reported as
\* COMP_DAY by the run that consumed the entitlement is still reported as
\* COMP_DAY by the next run.
C26_RerunSameSchedule ==
    [][rerunStep => (reported(out'.dailyStatus) = reported(out.dailyStatus) /\ compDayKept)]_vars

\* What holds: a run after a run that left the ledger as it found it, as
\* every dry run does, reports the same schedule
C26_DryRerunSameSchedule ==
    [][(rerunStep /\ isDryRun) =>
          (reported(out'.dailyStatus) = reported(out.dailyStatus) /\ compDayKept)]_vars

\* A live second run reported WORK for a cell whose comp day the first run consumed
C26_ConsumedCase ==
    /\ runs = 2
    /\ epc = "done"
    /\ ~isDryRun
    /\ decisionSheet = SampleMatrix
    /\ \E i \in 1..Len(ledger), k \in 1..Len(out.dailyStatus) :
          /\ ledger[i].scriptNote = "Comp Day Consumed"
          /\ out.dailyStatus[k].key = ledgerKey(ledger[i])
          /\ out.dailyStatus[k].finalStatus = "WORK"

-----------------------------------------------------------------------------
(* The shift of a derived work day *)

\* The derived shift of the resolved cell is a shift
usableShift ==
    /\ cellOut.locals.currentShift # "OFF"
    /\ cellOut.locals.currentShift # ""
    /\ cellOut.res.finalStatus = "WORK" => cellOut.res.row.finalShift # "OFF"

\* C27: a derived work day always has a usable shift. For every employee
\* whose baseShift is a non-empty string (a shift code or "OFF"), every day
\* and every set of active rules, if the state after Pass 2 is WORK then
\* the derived shift is neither "OFF" nor empty, so a result with final
\* status WORK on a derived work day never reports the final shift "OFF".
C27_WorkDayHasShift ==
    (cpc = "resolved" /\ cellIn.emp.baseShift # "" /\ cellOut.locals.isWorkDay) => usableShift

\* What holds: the derived work day of an employee whose baseShift is a
\* shift code has a usable shift
C27_WorkDayHasShiftWithBaseShift ==
    (cpc = "resolved" /\ cellIn.emp.baseShift \notin {"", "OFF"} /\ cellOut.locals.isWorkDay) =>
        usableShift

\* An employee without a base shift whom a DAY_PATTERN rule puts to work
\* and whose Pass 2 winner carries OFF
C27_OffBaseShiftCase ==
    /\ cpc = "resolved"
    /\ cellIn.emp.baseShift = "OFF"
    /\ cellOut.locals.afterPass1.isWorkDay
    /\ cellOut.locals.afterPass1.currentShift = "09:00 - 18:00"
    /\ findWinningRule(cellOut.locals.activeRules, "SHIFT_OVERRIDE").id # <<>>
    /\ cellOut.locals.isWorkDay
    /\ cellOut.locals.currentShift = "OFF"
    /\ cellOut.res.finalStatus = "WORK"
    /\ cellOut.res.row.finalShift = "OFF"

-----------------------------------------------------------------------------
(* Pass 1 on the resolved cell *)

\* The DAY_PATTERN winner of the resolved cell
winnerWO == findWinningRule(cellOut.locals.activeRules, "DAY_PATTERN")

\* The day is off by the base roster
baseOffDay ==
    \/ cellIn.meta.day = cellIn.emp.wo1
    \/ cellIn.meta.day = cellIn.emp.wo2
    \/ cellIn.emp.baseShift = "OFF"

\* The weekday is one of the two off-days the winner declares
declaredOff ==
    \/ cellIn.meta.day = normalizeDay(winnerWO.wo1)
    \/ cellIn.meta.day = normalizeDay(winnerWO.wo2)

\* The winner's shift value is a shift: not empty and not OFF, read as the
\* code reads it, upper-cased and trimmed
hasShiftValue == upperTrim(winnerWO.shift) \notin {"", "OFF"}

\* The shift Pass 1 is stated to leave on a work day of the winner
statedPatternShift ==
    IF hasShiftValue THEN winnerWO.shift
    ELSE IF ~baseOffDay THEN cellIn.emp.baseShift
    ELSE IF cellIn.emp.baseShift # "OFF" THEN cellIn.emp.baseShift
    ELSE "09:00 - 18:00"

\* C28: Pass 1 semantics. When an active DAY_PATTERN winner exists, the day
\* becomes OFF with shift "OFF" iff the weekday equals one of the winner's
\* two declared off-days (normalized to three upper-case letters); otherwise
\* the day becomes WORK and the shift is the winner's shift value when that
\* value is non-empty and not "OFF", else the current shift is kept unless it
\* was "OFF", in which case it becomes the employee's baseShift, or the fixed
\* default "09:00 - 18:00" when baseShift is itself "OFF". When no
\* DAY_PATTERN rule is active, state and shift stay as base determination
\* left them.
C28_Pass1Semantics ==
    cpc = "resolved" =>
        /\ (winnerWO.id # <<>> /\ declaredOff) =>
              /\ ~cellOut.locals.afterPass1.isWorkDay
              /\ cellOut.locals.afterPass1.currentShift = "OFF"
        /\ (winnerWO.id # <<>> /\ ~declaredOff) =>
              /\ cellOut.locals.afterPass1.isWorkDay
              /\ cellOut.locals.afterPass1.currentShift = statedPatternShift
        /\ winnerWO.id = <<>> =>
              /\ cellOut.locals.afterPass1.isWorkDay = ~baseOffDay
              /\ cellOut.locals.afterPass1.currentShift =
                    (IF baseOffDay THEN "OFF" ELSE cellIn.emp.baseShift)

\* C28 witness: a winner without a shift puts an employee without a base
\* shift to work, with the default shift
C28_Witness ==
    /\ cpc = "resolved"
    /\ winnerWO.id # <<>>
    /\ ~declaredOff
    /\ ~hasShiftValue
    /\ cellIn.emp.baseShift = "OFF"
    /\ cellOut.locals.afterPass1.isWorkDay
    /\ cellOut.locals.afterPass1.currentShift = "09:00 - 18:00"

-----------------------------------------------------------------------------
(* The rule flag of the lookup key *)

\* The work/off state after both passes is the base state
stateUnchanged == cellOut.locals.isWorkDay = ~baseOffDay

\* The lookup key of the same cell resolved without any rule
keyWithoutRules == resolveLocals(cellIn.emp, cellIn.meta, engineCtx, <<>>).flags

\* C29: rules are visible to the decision table only when they changed the
\* state. For every cell the ruleFlag used in the lookup key is NONE iff the
\* work/off state after both passes equals the base state, and otherwise
\* equals the derived state (WORK or OFF); so a DAY_PATTERN or SHIFT_OVERRIDE
\* rule that changes only the shift, or that re-asserts the base state,
\* produces the same lookup key as no rule at all.
C29_RuleFlagOnlyOnChange ==
    cpc = "resolved" =>
        /\ cellOut.locals.flags[2] = cellOut.locals.ruleFlag
        /\ cellOut.locals.ruleFlag = "NONE" <=> stateUnchanged
        /\ ~stateUnchanged =>
              cellOut.locals.ruleFlag = (IF cellOut.locals.isWorkDay THEN "WORK" ELSE "OFF")
        /\ stateUnchanged => cellOut.locals.flags = keyWithoutRules
        /\ cellOut.locals.match = matrixLookup(engineCtx.matrixIndex, cellOut.locals.flags)

\* C29 witness: a shift override changed the shift of a work day, a day
\* pattern was active too, and the key is the key of the cell without rules
C29_Witness ==
    /\ cpc = "resolved"
    /\ winnerSHIFT.id # <<>>
    /\ winnerWO.id # <<>>
    /\ cellOut.locals.isWorkDay
    /\ cellOut.locals.currentShift = "10:00 - 19:00"
    /\ cellIn.emp.baseShift = "09:00 - 18:00"
    /\ cellOut.locals.ruleFlag = "NONE"
    /\ cellOut.locals.flags = keyWithoutRules

-----------------------------------------------------------------------------
(* runWorkforceEngine: the log buffer on every way out of a run *)

\* part_000:53 with Validation.js:27-33, and part_000:54 with
\* SchemaValidator.js:22-43 and 53-54: what is in the buffer when the
\* validation of the central database throws
failedValidationLogs(dry, stage) ==
    IF stage = "sheets"
    THEN logError(startLogs(dry), "missing sheets")
    ELSE logError(logInfo(startLogs(dry), "validating schema"), "schema")

\* part_000:53-54: a required sheet or header of the central database is
\* missing; validateCentralDatabase or validateAllSchemas logs the error and
\* throws, and nothing in runWorkforceEngine catches it
ValidationFails ==
    \E stage \in {"sheets", "schema"} :
        /\ wpc = "start"
        /\ logBuffer' = failedValidationLogs(isDryRun, stage)
        /\ wpc' = "thrown"
        /\ UNCHANGED <<ledgerVars, ruleVars, cellVars, matrixVars, roster, leaveSheet,
                       holidaySheet, out, runs, epc, granted, pureVars,
                       workspaces, wi, progress, cellsDone, batch, daily, systemLogs>>

NextExit == NextEngine \/ ValidationFails

\* A cell of the roster of the current workspace is still to be resolved:
\* the condition under which ResolveNextCell can be taken
cellPending == wpc = "resolving" /\ cellsDone < Len(cellsOf(workspaces[wi].roster))

\* The steps of a run other than the resolution of a cell
controlStep ==
    \/ StartRun
    \/ ValidationFails
    \/ GuardStop
    \/ EnterWorkspace
    \/ WriteOutput
    \/ ApplyGrants
    \/ ApplyRevocations
    \/ Complete

\* A run goes on until it returns or throws: the script is executed
\* statement by statement and every loop of it is bounded. The second
\* conjunct is weak fairness of ResolveNextCell with its enabling condition
\* written out
runsToItsEnd ==
    /\ WF_vars(controlStep)
    /\ ([]<>(~cellPending) \/ []<><<ResolveNextCell>>_vars)

SpecExit == InitEngine /\ [][NextExit]_vars /\ runsToItsEnd

\* The run has ended, by a return or by an exception
runEnded == runOver \/ wpc = "thrown"

\* The last rows of the System_Logs sheet are the entries of the buffer
writtenLast(buf, sheet) ==
    /\ sheet.exists
    /\ Len(sheet.rows) >= Len(buf)
    /\ SubSeq(sheet.rows, Len(sheet.rows) - Len(buf) + 1, Len(sheet.rows)) = buf

\* C30: logs are flushed on every exit path. Every log entry buffered during
\* a run of runWorkforceEngine (including the error entry logged when a
\* required sheet or header is missing, when a workspace fails, and the
\* warning logged when the time guard fires) is eventually written to the
\* System_Logs sheet before the run ends, and the buffer is emptied only
\* after a successful write.
C30_LogsFlushedOnEveryExit ==
    /\ (logBuffer # <<>>) ~> (logBuffer = <<>>)
    /\ [](runEnded => logBuffer = <<>>)
    /\ [][(logBuffer # <<>> /\ logBuffer' = <<>>) =>
             \E n \in 0..1 :
                 writtenLast(logBuffer \o SubSeq(<<logEntry("WARN", "time limit")>>, 1, n)
                                       \o <<logEntry("INFO", "completed")>>, systemLogs')]_vars

\* What holds: a run whose central database passed the validation flushes
\* every entry, among them the errors of failed workspaces and the warning
\* of the time guard, and its buffer is emptied only by a write
C30_LogsFlushedAfterValidation ==
    /\ (logBuffer # <<>> /\ wpc # "thrown") ~> (logBuffer = <<>> /\ runOver)
    /\ [](runOver => logBuffer = <<>>)
    /\ [][(logBuffer # <<>> /\ logBuffer' = <<>>) =>
             \E n \in 0..1 :
                 writtenLast(logBuffer \o SubSeq(<<logEntry("WARN", "time limit")>>, 1, n)
                                       \o <<logEntry("INFO", "completed")>>, systemLogs')]_vars

\* The run ended by the exception of a failed validation, its entries unwritten
C30_ThrownCase ==
    /\ wpc = "thrown"
    /\ logBuffer # <<>>
    /\ logBuffer[Len(logBuffer)].level = "ERROR"
    /\ \A i \in 1..Len(systemLogs.rows) : systemLogs.rows[i].level # "ERROR"
====
